---- MODULE Spec2Model ----
(***************************************************************************)
(* A model of the BFV ciphertext algebra of fhe-no-std: parameter sets,    *)
(* secret-key encryption and decryption, the homomorphic operators of      *)
(* crates/bfv/src/ciphertext.rs, minimization and the wire conversion.     *)
(*                                                                         *)
(* Ring elements are taken at ring degree 1 (Z[x]/(x+1), where the power   *)
(* basis and the NTT domain coincide), so a ring element is one residue    *)
(* per modulus of its context.  The moduli are small primes standing in   *)
(* for the 62-bit primes of the program, so that every product stays in   *)
(* the range of the model checker's integers.                              *)
(*                                                                         *)
(* Further sections model the statements of encrypt, decrypt and           *)
(* KeySwitchingKey::new one by one (temporaries, wipes, variable-time      *)
(* flags), the parameter builder, and the scalar kernel of zq.             *)
(***************************************************************************)
EXTENDS Integers, Sequences, FiniteSets, TLC

VARIABLES
    sk,     \* the secret key: [par, s]
    ek,     \* the evaluation key: [par, relin, ksk]
    reg,    \* the ciphertext variables of the caller: register -> Ciphertext
    gh,     \* for each register, the plaintext its ciphertext stands for, if known
    wire,   \* the CiphertextProto in flight, if any
    last,   \* the last operation: its operands before it ran, and its outcome
    fuel,   \* number of operations the caller may still run
    call,   \* the execution of encrypt, decrypt or KeySwitchingKey::new in flight
    builder, \* the BfvParametersBuilder of the caller
    zq      \* the inputs of a call of the scalar kernel: modulus, operands, build profile

vars == <<sk, ek, reg, gh, wire, last, fuel, call, builder, zq>>

(***************************************************************************)
(* Bounds of the model.                                                    *)
(***************************************************************************)
MaxOps == 3          \* operations in one run of the full algebra
MaxEncOps == 2       \* operations in one run that starts from fresh encryptions
MaxMulOps == 1       \* operations in one run of the multiplications
MaxCalls == 2        \* calls of encrypt, decrypt and KeySwitchingKey::new in one run
MaxBuilderCalls == 4 \* calls on one parameter builder
MaxWireOps == 2      \* a message and its deserialization
MaxWireLimbs == 3    \* encoded elements in a message
MaxKskCalls == 2     \* calls on one key-switching key
MaxZqCalls == 1      \* calls of the scalar kernel on one choice of inputs

\* the ciphertext variables of the caller: two, as the operands of a binary
\* operator
Regs == {1, 2}

(***************************************************************************)
(* Arithmetic helpers.                                                     *)
(***************************************************************************)
RECURSIVE Prod(_)
Prod(ms) == IF Len(ms) = 0 THEN 1 ELSE ms[1] * Prod(Tail(ms))

RECURSIVE BitLen(_)
BitLen(x) == IF x = 0 THEN 0 ELSE 1 + BitLen(x \div 2)

\* is_prime, by trial division up to the square root
IsPrime(p) ==
    p >= 2 /\ \A d \in 2..(2 ^ ((BitLen(p) + 1) \div 2)) : d >= p \/ p % d # 0

\* Modulus::neg (on reduced input)
Neg(p, a) == (p - a) % p

\* Modulus::inv: None (here 0) if p is not prime or a = 0, else a^(p-2) mod p
Inv(p, a) ==
    IF ~IsPrime(p) \/ a = 0 THEN 0
    ELSE CHOOSE x \in 1..(p - 1) : (a * x) % p = 1

(***************************************************************************)
(* Contexts and ring elements.                                             *)
(***************************************************************************)
Context(tag, moduli) == [tag |-> tag, moduli |-> moduli]

Poly(ctx, coeffs) == [ctx |-> ctx, coeffs |-> coeffs]

\* RnsContext::lift: the value in [0, Q) with the given residues (Garner)
RECURSIVE Lift(_, _)
Lift(r, ms) ==
    IF Len(ms) = 0 THEN 0
    ELSE LET k  == Len(ms)
             M  == Prod(SubSeq(ms, 1, k - 1))
             hd == Lift(SubSeq(r, 1, k - 1), SubSeq(ms, 1, k - 1))
             j  == CHOOSE j \in 0..(ms[k] - 1) : (hd + j * M) % ms[k] = r[k]
         IN  hd + j * M

\* the representative of least absolute value of x modulo an odd Q
Center(x, Q) == IF 2 * x > Q THEN x - Q ELSE x

\* the residues of an integer (possibly negative) over a list of moduli
Residues(x, ms) == [i \in 1..Len(ms) |-> x % ms[i]]

\* Poly::try_convert_from(&[u64]) of a constant: a small value in a context
PolyFromInt(ctx, x) == Poly(ctx, Residues(x, ctx.moduli))

PolyZero(ctx) == PolyFromInt(ctx, 0)

\* the centered integer a ring element stands for
PolyValue(p) == Center(Lift(p.coeffs, p.ctx.moduli), Prod(p.ctx.moduli))

\* ring operations: defined only between elements of the same context
SameCtx(a, b) == a.ctx = b.ctx

PolyAdd(a, b) ==
    Poly(a.ctx, [i \in 1..Len(a.coeffs) |-> (a.coeffs[i] + b.coeffs[i]) % a.ctx.moduli[i]])

PolySub(a, b) ==
    Poly(a.ctx, [i \in 1..Len(a.coeffs) |->
        (a.coeffs[i] + a.ctx.moduli[i] - b.coeffs[i]) % a.ctx.moduli[i]])

PolyNeg(a) ==
    Poly(a.ctx, [i \in 1..Len(a.coeffs) |-> Neg(a.ctx.moduli[i], a.coeffs[i])])

PolyMul(a, b) ==
    Poly(a.ctx, [i \in 1..Len(a.coeffs) |-> (a.coeffs[i] * b.coeffs[i]) % a.ctx.moduli[i]])

(***************************************************************************)
(* Scaler: round(value * num / den) from one context into another.         *)
(***************************************************************************)
Scaler(from, to, num, den) == [from |-> from, to |-> to, num |-> num, den |-> den]

\* round to nearest of x * num / den, for den > 0
RoundDiv(x, num, den) == (2 * x * num + den) \div (2 * den)

ScaleOk(sc, p) == p.ctx = sc.from

Scale(sc, p) == PolyFromInt(sc.to, RoundDiv(PolyValue(p), sc.num, sc.den))

(***************************************************************************)
(* Parameter sets.  A parameter set is what BfvParametersBuilder::build    *)
(* derives from the plaintext modulus t, the ciphertext moduli and the     *)
(* variance; ext is the extended basis (the primes build generates for the *)
(* multiplication contexts).  All derived objects are functions of these.  *)
(***************************************************************************)
BfvParameters(t, moduli, variance, ext) ==
    [plaintext_modulus |-> t, ciphertext_moduli |-> moduli, variance |-> variance, ext |-> ext]

ParCtx(par) == Context("ctx", par.ciphertext_moduli)

PlaintextCtx(par) == Context("plaintext_ctx", SubSeq(par.ciphertext_moduli, 1, 1))

BigQ(par) == Prod(par.ciphertext_moduli)

\* delta = -1/t mod Q, as a ring element of the ciphertext context
DeltaRests(par) ==
    [i \in 1..Len(par.ciphertext_moduli) |->
        Inv(par.ciphertext_moduli[i],
            Neg(par.ciphertext_moduli[i], par.plaintext_modulus))]

Delta(par) == PolyFromInt(ParCtx(par), Lift(DeltaRests(par), par.ciphertext_moduli))

QModT(par) == BigQ(par) % par.plaintext_modulus

\* the decryption scaler: ctx -> plaintext_ctx, factor t / Q
DecryptScaler(par) ==
    Scaler(ParCtx(par), PlaintextCtx(par), par.plaintext_modulus, BigQ(par))

\* the modulus-switch scaler: ctx -> plaintext_ctx, factor 1 / (Q / q_0)
ModSwitch(par) ==
    Scaler(ParCtx(par), PlaintextCtx(par), 1, BigQ(par) \div par.ciphertext_moduli[1])

(***************************************************************************)
(* Seeds, small polynomials, plaintexts.                                   *)
(***************************************************************************)
SeedLen == 32

\* a seed is held as its length in bytes and the value the bytes encode;
\* the absent seed (None, or the empty seed field of the wire format) has
\* no bytes
NoSeed == [len |-> 0, key |-> 0]

Seed(k) == [len |-> SeedLen, key |-> k]

\* the seeds an encryption draws, and the seed of the key-switching key
Seeds == {Seed(1), Seed(2)}

KskSeed == Seed(3)

\* Poly::random_from_seed: a deterministic pseudo-random element; the row of
\* a modulus depends on the seed and on the position of the modulus only
RandomFromSeed(ctx, seed) ==
    Poly(ctx, [i \in 1..Len(ctx.moduli) |-> (17 * seed.key + 5 * i + 3) % ctx.moduli[i]])

\* Poly::small: coefficients of absolute value at most 2 * variance
SmallRange(variance) == (-2 * variance)..(2 * variance)

\* Modulus::center_vt
center_vt(p, a) == IF a >= p \div 2 THEN a - p ELSE a

\* a Plaintext of value w in [0, t): the centered value and the ring element
Plaintext(par, w) ==
    [par |-> par, value |-> center_vt(par.plaintext_modulus, w),
     poly_ntt |-> PolyFromInt(ParCtx(par), w)]

\* encode_pt: the plaintext scaled into the ciphertext modulus,
\* delta * ((Q mod t) * value mod t) = floor(Q * value / t) mod Q
encode_pt(par, pt) ==
    PolyMul(PolyFromInt(ParCtx(par),
                (QModT(par) * (pt.value % par.plaintext_modulus)) % par.plaintext_modulus),
            Delta(par))

(***************************************************************************)
(* Results of operations.                                                  *)
(***************************************************************************)
None == [none |-> TRUE]

Ok(v) == [tag |-> "Ok", val |-> v, msg |-> ""]

Err(msg) == [tag |-> "Err", val |-> None, msg |-> msg]

\* a failed assertion, unwrap or index: the operation aborts
Panic == [tag |-> "Panic", val |-> None, msg |-> ""]

(***************************************************************************)
(* Secret key: encryption and decryption.                                  *)
(***************************************************************************)
SecretKey(par, sv) == [par |-> par, s |-> PolyFromInt(ParCtx(par), sv)]

Ciphertext(par, seed, c, minimized) ==
    [par |-> par, seed |-> seed, c |-> c, minimized |-> minimized]

\* an encryption that adds a * s to the error instead of subtracting it
encrypt_adds_mask(key, pt, seed, e) ==
    LET a   == RandomFromSeed(ParCtx(key.par), seed)
        a_s == PolyMul(a, key.s)
        b0  == PolyFromInt(ParCtx(key.par), e)
        b1  == PolyAdd(b0, a_s)
        m   == encode_pt(key.par, pt)
        b   == PolyAdd(b1, m)
    IN  Ok(Ciphertext(key.par, seed, <<b, a>>, FALSE))

\* SecretKey::encrypt with the seed and the error it samples
encrypt(key, pt, seed, e) ==
    LET a   == RandomFromSeed(ParCtx(key.par), seed)
        a_s == PolyMul(a, key.s)
        b0  == PolyFromInt(ParCtx(key.par), e)
        b1  == PolySub(b0, a_s)
        m   == encode_pt(key.par, pt)
        b   == PolyAdd(b1, m)
    IN  Ok(Ciphertext(key.par, seed, <<b, a>>, FALSE))

\* SecretKey::decrypt; c0 and c1 are the first two elements of the ciphertext
decrypt(key, ct) ==
    IF key.par # ct.par THEN Err("Incompatible BFV parameters")
    ELSE IF Len(ct.c) < 2 THEN Panic
    ELSE LET c0 == ct.c[1]
             c1 == ct.c[2]
         IN  IF ~SameCtx(c1, key.s) THEN Panic
             ELSE LET c1_s == PolyMul(c1, key.s)
                      c    == PolyAdd(c0, c1_s)
                      sc   == DecryptScaler(key.par)
                  IN  IF ~ScaleOk(sc, c) THEN Err("scale")
                      ELSE LET d == Scale(sc, c)
                               v == d.coeffs[1] + key.par.plaintext_modulus
                               w == (v % key.par.ciphertext_moduli[1])
                                        % key.par.plaintext_modulus
                           IN  Ok(Plaintext(key.par, w))

(***************************************************************************)
(* Multiplication parameters (BfvParametersBuilder::build).                *)
(***************************************************************************)
RECURSIVE SumBits(_)
SumBits(ms) == IF Len(ms) = 0 THEN 0 ELSE BitLen(ms[1]) + SumBits(Tail(ms))

MultiplicationParameters(from, to, up_self, up_other, down) ==
    [extender_self  |-> Scaler(from, to, up_self[1], up_self[2]),
     extender_other |-> Scaler(from, to, up_other[1], up_other[2]),
     down_scaler    |-> Scaler(to, from, down[1], down[2]),
     from |-> from, to |-> to]

\* type 1: extend by n_moduli primes with factor 1, scale down by t / Q
Mul1Params(par) ==
    LET n_moduli == ((SumBits(par.ciphertext_moduli) + 60) + 61) \div 62
        mul_1_moduli == par.ciphertext_moduli \o SubSeq(par.ext, 1, n_moduli)
    IN  MultiplicationParameters(ParCtx(par), Context("mul_1_ctx", mul_1_moduli),
            <<1, 1>>, <<1, 1>>, <<par.plaintext_modulus, BigQ(par)>>)

\* type 2 with the second operand extended by factor 1
Mul2ParamsUnscaled(par) ==
    LET n_moduli == Len(par.ciphertext_moduli)
        basis == SubSeq(par.ext, 1, n_moduli)
        mul_2_moduli == par.ciphertext_moduli \o basis
    IN  MultiplicationParameters(ParCtx(par), Context("mul_2_ctx", mul_2_moduli),
            <<1, 1>>, <<1, 1>>, <<par.plaintext_modulus, Prod(basis)>>)

\* type 2: extend by as many primes as there are moduli, the second operand
\* with factor P / Q, scale down by t / P
Mul2Params(par) ==
    LET n_moduli == Len(par.ciphertext_moduli)
        basis == SubSeq(par.ext, 1, n_moduli)
        mul_2_moduli == par.ciphertext_moduli \o basis
    IN  MultiplicationParameters(ParCtx(par), Context("mul_2_ctx", mul_2_moduli),
            <<1, 1>>, <<Prod(basis), BigQ(par)>>, <<par.plaintext_modulus, Prod(basis)>>)

(***************************************************************************)
(* Key-switching key and evaluation key.                                   *)
(***************************************************************************)
\* RnsContext::get_garner: 1 modulo the i-th modulus, 0 modulo the others
Garner(ms, i) == Lift([j \in 1..Len(ms) |-> IF j = i THEN 1 ELSE 0], ms)

PolyScalarMul(g, p) ==
    Poly(p.ctx, [i \in 1..Len(p.coeffs) |-> ((g % p.ctx.moduli[i]) * p.coeffs[i]) % p.ctx.moduli[i]])

\* the seed of the i-th element, drawn from the generator seeded with seed
SubSeed(seed, i) == Seed(3 * seed.key + i)

\* a key-switching key whose elements carry no Garner coefficient
KeySwitchingKey_no_garner(key, from, seed, errs) ==
    LET ms == key.par.ciphertext_moduli
        a(i) == RandomFromSeed(ParCtx(key.par), SubSeed(seed, i))
        b(i) == PolyAdd(PolySub(PolyFromInt(ParCtx(key.par), errs[i]), PolyMul(a(i), key.s)),
                        from)
    IN  [par |-> key.par, seed |-> seed,
         c0 |-> [i \in 1..Len(ms) |-> b(i)],
         c1 |-> [i \in 1..Len(ms) |-> a(i)]]

\* KeySwitchingKey::new with the seed and the errors it samples
KeySwitchingKey(key, from, seed, errs) ==
    LET ms == key.par.ciphertext_moduli
        a(i) == RandomFromSeed(ParCtx(key.par), SubSeed(seed, i))
        b(i) == PolyAdd(PolySub(PolyFromInt(ParCtx(key.par), errs[i]), PolyMul(a(i), key.s)),
                        PolyScalarMul(Garner(ms, i), from))
    IN  [par |-> key.par, seed |-> seed,
         c0 |-> [i \in 1..Len(ms) |-> b(i)],
         c1 |-> [i \in 1..Len(ms) |-> a(i)]]

RECURSIVE KeySwitchSum(_, _, _, _)
KeySwitchSum(ctx, rows, keys, n) ==
    IF n = 0 THEN PolyZero(ctx)
    ELSE PolyAdd(KeySwitchSum(ctx, rows, keys, n - 1),
                 PolyMul(PolyFromInt(ctx, rows[n]), keys[n]))

\* KeySwitchingKey::key_switch: sum over the rows p_i of p of p_i * (c0_i, c1_i)
key_switch(ksk, p) ==
    LET n == IF Len(p.coeffs) < Len(ksk.c0) THEN Len(p.coeffs) ELSE Len(ksk.c0)
    IN  <<KeySwitchSum(ParCtx(ksk.par), p.coeffs, ksk.c0, n),
          KeySwitchSum(ParCtx(ksk.par), p.coeffs, ksk.c1, n)>>

\* an evaluation key, with or without relinearization support; the
\* relinearization key switches from s^2
EvaluationKey(key, relin, seed, errs) ==
    [par |-> key.par, relin |-> relin,
     ksk |-> KeySwitchingKey(key, PolyMul(key.s, key.s), seed, errs)]

supports_relinearization(evk) == evk.relin

(***************************************************************************)
(* Ciphertext operations (crates/bfv/src/ciphertext.rs).                   *)
(***************************************************************************)
zero(par) == Ciphertext(par, NoSeed, << >>, FALSE)

\* Ciphertext::minimizes: the flag is set, then every element is scaled;
\* scaling an element that is not over the full context fails the unwrap
minimizes(ct) ==
    IF \E i \in 1..Len(ct.c) : ~ScaleOk(ModSwitch(ct.par), ct.c[i]) THEN Panic
    ELSE Ok(Ciphertext(ct.par, ct.seed,
                       [i \in 1..Len(ct.c) |-> Scale(ModSwitch(ct.par), ct.c[i])], TRUE))

\* += that does not look at the minimized flag of the right operand
add_assign_rhs_unchecked(self, rhs) ==
    IF self.par # rhs.par THEN Panic
    ELSE IF self.minimized THEN Panic
    ELSE IF Len(self.c) = 0 THEN Ok(rhs)
    ELSE IF Len(self.c) # Len(rhs.c) THEN Panic
    ELSE Ok(Ciphertext(self.par, NoSeed,
                       [i \in 1..Len(self.c) |-> PolyAdd(self.c[i], rhs.c[i])],
                       self.minimized))

\* += that keeps the seed of the left operand
add_assign_keeps_seed(self, rhs) ==
    IF self.par # rhs.par THEN Panic
    ELSE IF self.minimized \/ rhs.minimized THEN Panic
    ELSE IF Len(self.c) = 0 THEN Ok(rhs)
    ELSE IF Len(self.c) # Len(rhs.c) THEN Panic
    ELSE Ok(Ciphertext(self.par, self.seed,
                       [i \in 1..Len(self.c) |-> PolyAdd(self.c[i], rhs.c[i])],
                       self.minimized))

\* += that adds the first elements only
add_assign_first_only(self, rhs) ==
    IF self.par # rhs.par THEN Panic
    ELSE IF self.minimized \/ rhs.minimized THEN Panic
    ELSE IF Len(self.c) = 0 THEN Ok(rhs)
    ELSE IF Len(self.c) # Len(rhs.c) THEN Panic
    ELSE Ok(Ciphertext(self.par, NoSeed,
                       [i \in 1..Len(self.c) |->
                           IF i = 1 THEN PolyAdd(self.c[i], rhs.c[i]) ELSE self.c[i]],
                       self.minimized))

\* += that compares the numbers of elements before it looks for an empty
\* left operand
add_assign_len_first(self, rhs) ==
    IF self.par # rhs.par THEN Panic
    ELSE IF self.minimized \/ rhs.minimized THEN Panic
    ELSE IF Len(self.c) # Len(rhs.c) THEN Panic
    ELSE IF Len(self.c) = 0 THEN Ok(rhs)
    ELSE Ok(Ciphertext(self.par, NoSeed,
                       [i \in 1..Len(self.c) |-> PolyAdd(self.c[i], rhs.c[i])],
                       self.minimized))

\* AddAssign<&Ciphertext>
add_assign(self, rhs) ==
    IF self.par # rhs.par THEN Panic
    ELSE IF self.minimized \/ rhs.minimized THEN Panic
    ELSE IF Len(self.c) = 0 THEN Ok(rhs)
    ELSE IF Len(self.c) # Len(rhs.c) THEN Panic
    ELSE Ok(Ciphertext(self.par, NoSeed,
                       [i \in 1..Len(self.c) |-> PolyAdd(self.c[i], rhs.c[i])],
                       self.minimized))

\* Add<&Ciphertext> for &Ciphertext: clone, then +=
add(self, rhs) == add_assign(self, rhs)

\* Neg for &Ciphertext
neg(self) ==
    IF self.minimized THEN Panic
    ELSE Ok(Ciphertext(self.par, NoSeed, [i \in 1..Len(self.c) |-> PolyNeg(self.c[i])], FALSE))

\* SubAssign<&Ciphertext>
sub_assign(self, rhs) ==
    IF self.par # rhs.par THEN Panic
    ELSE IF self.minimized \/ rhs.minimized THEN Panic
    ELSE IF Len(self.c) = 0 THEN neg(rhs)
    ELSE IF Len(self.c) # Len(rhs.c) THEN Panic
    ELSE Ok(Ciphertext(self.par, NoSeed,
                       [i \in 1..Len(self.c) |-> PolySub(self.c[i], rhs.c[i])],
                       self.minimized))

\* Sub<&Ciphertext> for &Ciphertext: clone, then -=
sub(self, rhs) == sub_assign(self, rhs)

\* MulAssign<&Plaintext>
mul_assign_pt(self, rhs) ==
    IF self.par # rhs.par THEN Panic
    ELSE IF self.minimized THEN Panic
    ELSE Ok(Ciphertext(self.par, NoSeed,
                       [i \in 1..Len(self.c) |-> PolyMul(self.c[i], rhs.poly_ntt)],
                       self.minimized))

\* Mul<&Plaintext> for &Ciphertext: clone, then *=
mul_pt(self, rhs) == mul_assign_pt(self, rhs)

\* the k-th element of the tensor product: sum of a[i] * b[j] over i + j = k
\* (indices from 0 in the code, from 1 here)
RECURSIVE TensorSum(_, _, _, _, _)
TensorSum(ctx, a, b, k, i) ==
    IF i = 0 THEN PolyZero(ctx)
    ELSE LET rest == TensorSum(ctx, a, b, k, i - 1)
             j == k + 1 - i
         IN  IF j >= 1 /\ j <= Len(b) THEN PolyAdd(rest, PolyMul(a[i], b[j])) ELSE rest

\* the tensor product of n elements: both operands are scaled into the
\* extended context, multiplied there, and every sum is scaled down
tensor_product(self, rhs, mp, n) ==
    LET self_c  == [i \in 1..Len(self.c) |-> Scale(mp.extender_self, self.c[i])]
        other_c == [i \in 1..Len(rhs.c) |-> Scale(mp.extender_self, rhs.c[i])]
        c == [k \in 1..n |->
                 Scale(mp.down_scaler, TensorSum(mp.to, self_c, other_c, k, Len(self_c)))]
    IN  Ok(Ciphertext(self.par, NoSeed, c, FALSE))

\* a tensor product that allocates one element per operand element
mul_ct_extra_limb(self, rhs) ==
    IF self.par # rhs.par THEN Panic
    ELSE IF self.minimized \/ rhs.minimized THEN Panic
    ELSE LET mp == Mul1Params(self.par)
         IN  IF \E i \in 1..Len(self.c) : ~ScaleOk(mp.extender_self, self.c[i]) THEN Panic
             ELSE IF \E i \in 1..Len(rhs.c) : ~ScaleOk(mp.extender_self, rhs.c[i]) THEN Panic
             ELSE tensor_product(self, rhs, mp, Len(self.c) + Len(rhs.c))

\* Mul<&Ciphertext> for &Ciphertext: the tensor product, without
\* relinearization; self.c.len() + other.c.len() - 1 underflows when both
\* operands are empty
mul_ct(self, rhs) ==
    IF self.par # rhs.par THEN Panic
    ELSE IF self.minimized \/ rhs.minimized THEN Panic
    ELSE LET mp == Mul1Params(self.par)
         IN  IF \E i \in 1..Len(self.c) : ~ScaleOk(mp.extender_self, self.c[i]) THEN Panic
             ELSE IF \E i \in 1..Len(rhs.c) : ~ScaleOk(mp.extender_self, rhs.c[i]) THEN Panic
             ELSE IF Len(self.c) + Len(rhs.c) - 1 < 0 THEN Panic
             ELSE tensor_product(self, rhs, mp, Len(self.c) + Len(rhs.c) - 1)

\* EvaluationKey::relinearizes: fold the key switch of c2 into (c0, c1)
relinearizes(evk, c0, c1, c2) ==
    LET ks == key_switch(evk.ksk, c2)
    IN  <<PolyAdd(c0, ks[1]), PolyAdd(c1, ks[2])>>

\* mul_internal after its checks: scale up, multiply, scale down, relinearize
mul_relin(ct0, ct1, evk, mp) ==
    IF \E i \in 1..2 : ~ScaleOk(mp.extender_self, ct0.c[i]) \/ ~ScaleOk(mp.extender_other, ct1.c[i])
        THEN Err("scale")
    ELSE IF evk.par # ct0.par THEN Err("relinearize")
    ELSE LET c00 == Scale(mp.extender_self, ct0.c[1])
             c01 == Scale(mp.extender_self, ct0.c[2])
             c10 == Scale(mp.extender_other, ct1.c[1])
             c11 == Scale(mp.extender_other, ct1.c[2])
             m0  == PolyMul(c00, c10)
             m1  == PolyAdd(PolyMul(c00, c11), PolyMul(c01, c10))
             m2  == PolyMul(c01, c11)
             c0  == Scale(mp.down_scaler, m0)
             c1  == Scale(mp.down_scaler, m1)
             c2  == Scale(mp.down_scaler, m2)
             r   == relinearizes(evk, c0, c1, c2)
         IN  Ok(Ciphertext(ct0.par, NoSeed, <<r[1], r[2]>>, FALSE))

\* mul_internal that counts the elements before it counts the moduli
mul_internal_size_first(ct0, ct1, evk, mp) ==
    IF ~supports_relinearization(evk)
        THEN Err("The evaluation key does not support relinearization")
    ELSE IF ct0.par # ct1.par THEN Err("Incompatible parameters")
    ELSE IF ct0.minimized \/ ct1.minimized
        THEN Err("A ciphertext is minimized and cannot be operated on")
    ELSE IF Len(ct0.c) # 2 \/ Len(ct1.c) # 2
        THEN Err("Multiplication can only be performed on ciphertexts of size 2")
    ELSE IF Len(ct0.par.ciphertext_moduli) = 1
        THEN Err("Parameters do not allow for multiplication")
    ELSE mul_relin(ct0, ct1, evk, mp)

\* mul_internal: multiply two ciphertexts and relinearize
mul_internal(ct0, ct1, evk, mp) ==
    IF ~supports_relinearization(evk)
        THEN Err("The evaluation key does not support relinearization")
    ELSE IF ct0.par # ct1.par THEN Err("Incompatible parameters")
    ELSE IF ct0.minimized \/ ct1.minimized
        THEN Err("A ciphertext is minimized and cannot be operated on")
    ELSE IF Len(ct0.par.ciphertext_moduli) = 1
        THEN Err("Parameters do not allow for multiplication")
    ELSE IF Len(ct0.c) # 2 \/ Len(ct1.c) # 2
        THEN Err("Multiplication can only be performed on ciphertexts of size 2")
    ELSE mul_relin(ct0, ct1, evk, mp)

mul(ct0, ct1, evk) == mul_internal(ct0, ct1, evk, Mul1Params(ct0.par))

mul2(ct0, ct1, evk) == mul_internal(ct0, ct1, evk, Mul2Params(ct0.par))

(***************************************************************************)
(* Wire conversion.                                                        *)
(***************************************************************************)
\* Rq::from(&Poly): the coefficient rows, without the context
Rq(p) == [coefficients |-> p.coeffs]

\* Poly::try_convert_from(&Rq, ctx): the rows must fit the context
RqFits(rq, ctx) ==
    /\ Len(rq.coefficients) = Len(ctx.moduli)
    /\ \A i \in 1..Len(ctx.moduli) : rq.coefficients[i] < ctx.moduli[i]

PolyFromRq(rq, ctx) == Poly(ctx, rq.coefficients)

CiphertextProto(c, seed, minimized) == [c |-> c, seed |-> seed, minimized |-> minimized]

\* From<&Ciphertext> for CiphertextProto; ct.c.len() - 1 underflows on no element
to_proto(ct) ==
    IF Len(ct.c) = 0 THEN Panic
    ELSE LET n == Len(ct.c)
             head == [i \in 1..(n - 1) |-> Rq(ct.c[i])]
         IN  IF ct.seed # NoSeed
                 THEN Ok(CiphertextProto(head, ct.seed, ct.minimized))
                 ELSE Ok(CiphertextProto(Append(head, Rq(ct.c[n])), NoSeed, ct.minimized))

\* a conversion that builds every element over the full context
try_convert_from_full_ctx(value, par) ==
    IF Len(value.c) = 0 \/ (Len(value.c) = 1 /\ value.seed.len = 0)
        THEN Err("Not enough polynomials")
    ELSE LET ctx == ParCtx(par)
         IN  IF \E i \in 1..Len(value.c) : ~RqFits(value.c[i], ctx) THEN Err("convert")
             ELSE LET c == [i \in 1..Len(value.c) |-> PolyFromRq(value.c[i], ctx)]
                  IN  IF value.seed.len # 0
                          THEN IF value.seed.len # SeedLen THEN Err("Invalid seed")
                               ELSE Ok(Ciphertext(par, value.seed,
                                           Append(c, RandomFromSeed(ctx, value.seed)),
                                           value.minimized))
                          ELSE Ok(Ciphertext(par, NoSeed, c, value.minimized))

\* TryConvertFrom<&CiphertextProto> for Ciphertext
try_convert_from(value, par) ==
    IF Len(value.c) = 0 \/ (Len(value.c) = 1 /\ value.seed.len = 0)
        THEN Err("Not enough polynomials")
    ELSE LET ctx == IF value.minimized THEN PlaintextCtx(par) ELSE ParCtx(par)
         IN  IF \E i \in 1..Len(value.c) : ~RqFits(value.c[i], ctx) THEN Err("convert")
             ELSE LET c == [i \in 1..Len(value.c) |-> PolyFromRq(value.c[i], ctx)]
                  IN  IF value.seed.len # 0
                          THEN IF value.seed.len # SeedLen THEN Err("Invalid seed")
                               ELSE Ok(Ciphertext(par, value.seed,
                                           Append(c, RandomFromSeed(ctx, value.seed)),
                                           value.minimized))
                          ELSE Ok(Ciphertext(par, NoSeed, c, value.minimized))

(***************************************************************************)
(* The state machine: a caller holding a secret key, an evaluation key and *)
(* two ciphertext variables applies   the operations in any order.  A      *)
(* failed assertion, unwrap or index aborts the caller: nothing runs after *)
(* it.                                                                     *)
(***************************************************************************)
\* one modulus, and two moduli; t = 2, variance 1 (the builder's default)
ParOne == BfvParameters(2, <<37>>, 1, <<61, 59>>)

ParTwo == BfvParameters(2, <<37, 31>>, 1, <<61, 59, 53>>)

ParSets == {ParOne, ParTwo}

\* the plaintext a register stands for, and the number of fresh encryptions
\* it is the sum of
Known(w, n) == [known |-> TRUE, w |-> w, n |-> n]

Unknown == [known |-> FALSE, w |-> 0, n |-> 0]

OpRecord(op, dst, lhs, rhs, pt, res, lw, rw) ==
    [op |-> op, dst |-> dst, lhs |-> lhs, rhs |-> rhs, pt |-> pt,
     tag |-> res.tag, msg |-> res.msg, out |-> res.val, lw |-> lw, rw |-> rw]

InitKeys(pars, svals, relins, kerrs) ==
    \E par \in pars, sv \in svals, relin \in relins, ke \in kerrs :
        /\ sk = SecretKey(par, sv)
        /\ ek = EvaluationKey(SecretKey(par, sv), relin, KskSeed,
                              [i \in 1..Len(par.ciphertext_moduli) |-> ke])

Step ==
    /\ fuel > 0
    /\ last.tag # "Panic"
    /\ fuel' = fuel - 1
    /\ UNCHANGED <<sk, ek, call, builder, zq>>

\* an operation on ciphertexts whose result, if any, is bound to register d
Apply(op, d, lhs, rhs, pt, res, g, lw, rw) ==
    /\ reg' = IF res.tag = "Ok" THEN [reg EXCEPT ![d] = res.val] ELSE reg
    /\ gh' = IF res.tag = "Ok" THEN [gh EXCEPT ![d] = g] ELSE gh
    /\ last' = OpRecord(op, d, lhs, rhs, pt, res, lw, rw)
    /\ UNCHANGED wire

\* let reg[d] = sk.encrypt(&pt)
Encrypt(d, w, seed, e) ==
    /\ Step
    /\ \E res \in {encrypt(sk, Plaintext(sk.par, w), seed, e)} :
          Apply("encrypt", d, None, None, Plaintext(sk.par, w), res, Known(w, 1), Unknown, Unknown)

\* let reg[d] = Ciphertext::zero(&par)
Zero(d, par) ==
    /\ Step
    /\ Apply("zero", d, None, None, None, Ok(zero(par)), Unknown, Unknown, Unknown)

\* reg[l].minimizes()
Minimizes(l) ==
    /\ Step
    /\ \E res \in {minimizes(reg[l])} :
          Apply("minimizes", l, reg[l], None, None, res, gh[l], gh[l], Unknown)

\* the plaintext of a sum: the sum of the plaintexts, or the right operand's
\* when the left operand is the empty ciphertext
GhAdd(l, r) ==
    IF Len(reg[l].c) = 0 THEN gh[r]
    ELSE IF gh[l].known /\ gh[r].known
        THEN Known((gh[l].w + gh[r].w) % reg[l].par.plaintext_modulus, gh[l].n + gh[r].n)
    ELSE Unknown

\* reg[l] += &reg[r]
AddAssign(l, r) ==
    /\ Step
    /\ \E res \in {add_assign(reg[l], reg[r])} :
          Apply("add_assign", l, reg[l], reg[r], None, res, GhAdd(l, r), gh[l], gh[r])

\* let reg[d] = &reg[l] + &reg[r], for any variable d
Add(l, r) ==
    /\ Step
    /\ \E res \in {add(reg[l], reg[r])} :
          \E d \in Regs : Apply("add", d, reg[l], reg[r], None, res, GhAdd(l, r), gh[l], gh[r])

\* reg[l] -= &reg[r]
SubAssign(l, r) ==
    /\ Step
    /\ \E res \in {sub_assign(reg[l], reg[r])} :
          Apply("sub_assign", l, reg[l], reg[r], None, res, Unknown, gh[l], gh[r])

\* let reg[d] = &reg[l] - &reg[r], for any variable d
Sub(l, r) ==
    /\ Step
    /\ \E res \in {sub(reg[l], reg[r])} :
          \E d \in Regs : Apply("sub", d, reg[l], reg[r], None, res, Unknown, gh[l], gh[r])

\* let reg[d] = -&reg[l], for any variable d
NegOp(l) ==
    /\ Step
    /\ \E res \in {neg(reg[l])} :
          \E d \in Regs : Apply("neg", d, reg[l], None, None, res, Unknown, gh[l], Unknown)

\* reg[l] *= &pt
MulAssignPt(l, pt) ==
    /\ Step
    /\ \E res \in {mul_assign_pt(reg[l], pt)} :
          Apply("mul_assign_pt", l, reg[l], None, pt, res, Unknown, gh[l], Unknown)

\* let reg[d] = &reg[l] * &pt, for any variable d
MulPt(l, pt) ==
    /\ Step
    /\ \E res \in {mul_pt(reg[l], pt)} :
          \E d \in Regs : Apply("mul_pt", d, reg[l], None, pt, res, Unknown, gh[l], Unknown)

\* let reg[d] = &reg[l] * &reg[r], for any variable d
MulCt(l, r) ==
    /\ Step
    /\ \E res \in {mul_ct(reg[l], reg[r])} :
          \E d \in Regs : Apply("mul_ct", d, reg[l], reg[r], None, res, Unknown, gh[l], gh[r])

\* let reg[d] = mul(&reg[l], &reg[r], &ek)?, for any variable d
Mul(l, r) ==
    /\ Step
    /\ \E res \in {mul(reg[l], reg[r], ek)} :
          \E d \in Regs : Apply("mul", d, reg[l], reg[r], None, res, Unknown, gh[l], gh[r])

\* let reg[d] = mul2(&reg[l], &reg[r], &ek)?, for any variable d
Mul2(l, r) ==
    /\ Step
    /\ \E res \in {mul2(reg[l], reg[r], ek)} :
          \E d \in Regs : Apply("mul2", d, reg[l], reg[r], None, res, Unknown, gh[l], gh[r])

\* sk.decrypt(&reg[l])
Decrypt(l) ==
    /\ Step
    /\ last' = OpRecord("decrypt", l, reg[l], None, None, decrypt(sk, reg[l]), gh[l], Unknown)
    /\ UNCHANGED <<reg, gh, wire>>

\* wire = CiphertextProto::from(&reg[l])
ToProto(l) ==
    /\ Step
    /\ \E res \in {to_proto(reg[l])} :
          /\ wire' = IF res.tag = "Ok" THEN res.val ELSE wire
          /\ last' = OpRecord("to_proto", l, reg[l], None, None, res, gh[l], Unknown)
    /\ UNCHANGED <<reg, gh>>

\* let reg[d] = Ciphertext::try_convert_from(&wire, &par)?
TryConvertFrom(d, par) ==
    /\ Step
    /\ wire # None
    /\ \E res \in {try_convert_from(wire, par)} :
          Apply("try_convert_from", d, None, None, None, res, Unknown, Unknown, Unknown)

(***************************************************************************)
(* The full algebra, from empty ciphertext variables.                      *)
(***************************************************************************)
\* the values drawn for the secret key, for the errors of the key-switching
\* key and for the error of an encryption; the operand of a plaintext
\* multiplication is the plaintext 1 of either parameter set
SKVals == {2}

KskErrs == {1}

ErrVals == {1}

PtOperands == { Plaintext(par, 1) : par \in ParSets }

Init ==
    /\ InitKeys(ParSets, SKVals, BOOLEAN, KskErrs)
    /\ reg = [r \in Regs |-> zero(sk.par)]
    /\ gh = [r \in Regs |-> Unknown]
    /\ wire = None
    /\ last = OpRecord("init", 0, None, None, None, Ok(None), Unknown, Unknown)
    /\ call = None
    /\ builder = None
    /\ zq = None
    /\ fuel = MaxOps

Next ==
    \/ \E d \in Regs, w \in 0..(sk.par.plaintext_modulus - 1), seed \in Seeds, e \in ErrVals :
          Encrypt(d, w, seed, e)
    \/ \E d \in Regs, par \in ParSets : Zero(d, par)
    \/ \E l \in Regs : Minimizes(l)
    \/ \E l, r \in Regs : AddAssign(l, r)
    \/ \E l, r \in Regs : Add(l, r)
    \/ \E l, r \in Regs : SubAssign(l, r)
    \/ \E l, r \in Regs : Sub(l, r)
    \/ \E l \in Regs : NegOp(l)
    \/ \E l \in Regs, pt \in PtOperands : MulAssignPt(l, pt)
    \/ \E l \in Regs, pt \in PtOperands : MulPt(l, pt)
    \/ \E l, r \in Regs : MulCt(l, r)
    \/ \E l, r \in Regs : Mul(l, r)
    \/ \E l, r \in Regs : Mul2(l, r)
    \/ \E l \in Regs : Decrypt(l)
    \/ \E l \in Regs : ToProto(l)
    \/ \E d \in Regs, par \in ParSets : TryConvertFrom(d, par)

Spec == Init /\ [][Next]_vars

(***************************************************************************)
(* Encryption, addition, minimization and decryption, from ciphertext      *)
(* variables that each hold a fresh encryption: every secret key, every    *)
(* plaintext and every error of the parameter set is drawn.                *)
(***************************************************************************)
\* one modulus too small for the error of an encryption
ParLow == BfvParameters(2, <<7>>, 1, <<61, 59>>)

\* one modulus just large enough for the error of an encryption
ParEdge == BfvParameters(2, <<11>>, 1, <<61, 59>>)

\* two moduli, the first one not above 3t/2
ParFirst == BfvParameters(2, <<3, 37>>, 1, <<61, 59, 53>>)

\* plaintext modulus 3
ParThree == BfvParameters(3, <<37>>, 1, <<61, 59>>)

EncParSets == {ParOne, ParTwo, ParLow, ParEdge, ParFirst, ParThree}

InitEnc ==
    /\ InitKeys(EncParSets, SmallRange(1), {TRUE}, KskErrs)
    /\ \E ws \in [Regs -> 0..(sk.par.plaintext_modulus - 1)],
          es \in [Regs -> SmallRange(sk.par.variance)] :
          /\ reg = [r \in Regs |-> encrypt(sk, Plaintext(sk.par, ws[r]), Seed(r), es[r]).val]
          /\ gh = [r \in Regs |-> Known(ws[r], 1)]
    /\ wire = None
    /\ last = OpRecord("init", 0, None, None, None, Ok(None), Unknown, Unknown)
    /\ call = None
    /\ builder = None
    /\ zq = None
    /\ fuel = MaxEncOps

NextEnc ==
    \/ \E l \in Regs : Minimizes(l)
    \/ \E l, r \in Regs : AddAssign(l, r)
    \/ \E l, r \in Regs : Add(l, r)
    \/ \E l \in Regs : Decrypt(l)

SpecEnc == InitEnc /\ [][NextEnc]_vars

(***************************************************************************)
(* Multiplication with relinearization, from ciphertext variables that     *)
(* each hold a fresh encryption under a parameter set with two moduli.     *)
(***************************************************************************)
\* two moduli too small for the error of a relinearization
ParSmall == BfvParameters(2, <<13, 11>>, 1, <<61, 59, 53>>)

MulParSets == {ParTwo, ParSmall}

\* the errors of the key-switching key: the two extremes
KskErrsMul == {-2, 2}

InitMul ==
    /\ InitKeys(MulParSets, SmallRange(1), {TRUE}, KskErrsMul)
    /\ \E ws \in [Regs -> 0..(sk.par.plaintext_modulus - 1)],
          es \in [Regs -> SmallRange(sk.par.variance)] :
          /\ reg = [r \in Regs |-> encrypt(sk, Plaintext(sk.par, ws[r]), Seed(r), es[r]).val]
          /\ gh = [r \in Regs |-> Known(ws[r], 1)]
    /\ wire = None
    /\ last = OpRecord("init", 0, None, None, None, Ok(None), Unknown, Unknown)
    /\ call = None
    /\ builder = None
    /\ zq = None
    /\ fuel = MaxMulOps

NextMul ==
    \/ \E l, r \in Regs : Mul(l, r)
    \/ \E l, r \in Regs : Mul2(l, r)
    \/ \E l \in Regs : Decrypt(l)

SpecMul == InitMul /\ [][NextMul]_vars

(***************************************************************************)
(* encrypt, decrypt and KeySwitchingKey::new, statement by statement: the  *)
(* temporaries that hold a secret-dependent value, their wipes, and the    *)
(* variable-time flags of the ring elements.  pc is the line of the next   *)
(* statement.  A call that can fail (error sampling, plaintext encoding,   *)
(* the scaler, the conversion to a ring element) fails or succeeds.        *)
(***************************************************************************)
TmpNames == {"a_s", "m", "c1_s", "c", "d", "v", "g_i_from"}

FlagNames == TmpNames \cup {"a", "b", "c0", "c1", "s", "from"}

\* a call at its first statement, under a key with n ciphertext moduli: no
\* temporary exists yet; the flags of the elements in on are set (those of
\* the ciphertext handed to decrypt), every other flag has the default of a
\* ring element, off
NewCall(fn, pc, on, n) ==
    [bad_vt |-> FALSE, early_allow |-> FALSE,
     flag |-> [x \in FlagNames |-> x \in on],
     fn |-> fn, given |-> on, i |-> 0, n |-> n, pc |-> pc, ret |-> "running",
     tmp |-> [x \in TmpNames |-> "none"]]

\* x is the secret polynomial, its square handed to KeySwitchingKey::new, or
\* a temporary that is not wiped
Secret(c, x) == x \in {"s", "from"} \/ (x \in TmpNames /\ c.tmp[x] = "live")

\* an arithmetic operation on the elements xs with result out: it runs in
\* variable time when the flag of an operand is set, and the result carries
\* the flag; bad_vt records a variable-time operation on a secret operand
Arith(c, xs, out) ==
    LET vt == \E x \in xs : c.flag[x]
    IN  [c EXCEPT !.flag[out] = vt,
                  !.bad_vt = @ \/ (vt /\ \E x \in xs : Secret(c, x))]

Live(c, x) == [c EXCEPT !.tmp[x] = "live"]

\* Zeroize::zeroize on each of xs
Zeroize(c, xs) ==
    [c EXCEPT !.tmp = [x \in TmpNames |-> IF x \in xs THEN "wiped" ELSE c.tmp[x]]]

\* Poly::allow_variable_time_computations on each of xs; early_allow records
\* that a temporary was not wiped at that point
AllowVt(c, xs) ==
    [c EXCEPT !.flag = [x \in FlagNames |-> IF x \in xs THEN TRUE ELSE c.flag[x]],
              !.early_allow = @ \/ \E x \in TmpNames : c.tmp[x] = "live"]

\* Poly::disallow_variable_time_computations on each of xs; also the flag
\* of a new ring element
DisallowVt(c, xs) ==
    [c EXCEPT !.flag = [x \in FlagNames |-> IF x \in xs THEN FALSE ELSE c.flag[x]]]

Goto(c, pc) == [c EXCEPT !.pc = pc]

\* the function returns (Ok, Err) or aborts (Panic); its locals are dropped
\* as they are
Exit(c, tag) == [c EXCEPT !.ret = tag]

\* SecretKey::encrypt
encrypt_mask(c) == Goto(Live(Arith(c, {"a", "s"}, "a_s"), "a_s"), 101)

encrypt_error(c, ok) ==
    IF ~ok THEN Exit(c, "Panic") ELSE Goto(Arith(c, {"b", "a_s"}, "b"), 104)

encrypt_message(c, ok) ==
    IF ~ok THEN Exit(c, "Err") ELSE Goto(Arith(Live(c, "m"), {"b", "m"}, "b"), 108)

encrypt_wipe(c) == Goto(Zeroize(c, {"a_s", "m"}), 113)

encrypt_allow(c) == Goto(AllowVt(c, {"a", "b"}), 117)

encrypt_return(c) == Exit(c, "Ok")

\* SecretKey::decrypt
decrypt_check(c, same) == IF ~same THEN Exit(c, "Err") ELSE Goto(c, 134)

\* a decrypt that works on the copies of c0 and c1 as they are
decrypt_clone_keeps_flags(c) == Goto(c, 139)

decrypt_clone(c) == Goto(DisallowVt(c, {"c0", "c1"}), 139)

decrypt_c1_s(c) == Goto(Live(Arith(c, {"c1", "s"}, "c1_s"), "c1_s"), 140)

decrypt_c(c) == Goto(Live(Arith(c, {"c0", "c1_s"}, "c"), "c"), 142)

decrypt_scale(c, ok) ==
    IF ~ok THEN Exit(c, "Err") ELSE Goto(Live(Live(Arith(c, {"c"}, "d"), "d"), "v"), 153)

decrypt_convert(c, ok) == IF ~ok THEN Exit(c, "Err") ELSE Goto(c, 169)

decrypt_wipe(c) == Goto(Zeroize(c, {"c1_s", "c", "d", "v"}), 174)

decrypt_return(c) == Exit(c, "Ok")

\* KeySwitchingKey::new: one iteration per ciphertext modulus
ksk_loop(c) == IF c.i < c.n THEN Goto(c, 46) ELSE Exit(Goto(c, 71), "Ok")

ksk_mask(c) ==
    Goto(Live(Arith(DisallowVt(c, {"a", "b"}), {"a", "s"}, "a_s"), "a_s"), 50)

ksk_error(c, ok) ==
    IF ~ok THEN Exit(c, "Err") ELSE Goto(Arith(c, {"b", "a_s"}, "b"), 53)

ksk_garner(c) ==
    Goto(Arith(Live(Arith(c, {"from"}, "g_i_from"), "g_i_from"), {"b", "g_i_from"}, "b"), 57)

ksk_wipe(c) == Goto(Zeroize(c, {"a_s", "g_i_from"}), 61)

ksk_allow(c) == Goto([AllowVt(c, {"a", "b"}) EXCEPT !.i = @ + 1], 42)

\* the caller starts a call when none is running and none has aborted
Enter(c) ==
    /\ IF call = None THEN TRUE ELSE call.ret \in {"Ok", "Err"}
    /\ fuel > 0
    /\ fuel' = fuel - 1
    /\ call' = c
    /\ UNCHANGED <<sk, ek, reg, gh, wire, last, builder, zq>>

\* the statement at line pc of the running call
At(fn, pc, c) ==
    /\ call # None
    /\ call.fn = fn /\ call.ret = "running" /\ call.pc = pc
    /\ call' = c
    /\ UNCHANGED <<sk, ek, reg, gh, wire, last, fuel, builder, zq>>

InitKey ==
    /\ InitKeys(ParSets, SKVals, BOOLEAN, KskErrs)
    /\ reg = [r \in Regs |-> zero(sk.par)]
    /\ gh = [r \in Regs |-> Unknown]
    /\ wire = None
    /\ last = OpRecord("init", 0, None, None, None, Ok(None), Unknown, Unknown)
    /\ call = None
    /\ builder = None
    /\ zq = None
    /\ fuel = MaxCalls

NextKey ==
    \/ Enter(NewCall("encrypt", 99, {}, Len(sk.par.ciphertext_moduli)))
    \/ At("encrypt", 99, encrypt_mask(call))
    \/ \E ok \in BOOLEAN : At("encrypt", 101, encrypt_error(call, ok))
    \/ \E ok \in BOOLEAN : At("encrypt", 104, encrypt_message(call, ok))
    \/ At("encrypt", 108, encrypt_wipe(call))
    \/ At("encrypt", 113, encrypt_allow(call))
    \/ At("encrypt", 117, encrypt_return(call))
    \/ \E on \in SUBSET {"c0", "c1"} : Enter(NewCall("decrypt", 130, on, Len(sk.par.ciphertext_moduli)))
    \/ \E same \in BOOLEAN : At("decrypt", 130, decrypt_check(call, same))
    \/ At("decrypt", 134, decrypt_clone(call))
    \/ At("decrypt", 139, decrypt_c1_s(call))
    \/ At("decrypt", 140, decrypt_c(call))
    \/ \E ok \in BOOLEAN : At("decrypt", 142, decrypt_scale(call, ok))
    \/ \E ok \in BOOLEAN : At("decrypt", 153, decrypt_convert(call, ok))
    \/ At("decrypt", 169, decrypt_wipe(call))
    \/ At("decrypt", 174, decrypt_return(call))
    \/ Enter(NewCall("ksk_new", 42, {}, Len(sk.par.ciphertext_moduli)))
    \/ At("ksk_new", 42, ksk_loop(call))
    \/ At("ksk_new", 46, ksk_mask(call))
    \/ \E ok \in BOOLEAN : At("ksk_new", 50, ksk_error(call, ok))
    \/ At("ksk_new", 53, ksk_garner(call))
    \/ At("ksk_new", 57, ksk_wipe(call))
    \/ At("ksk_new", 61, ksk_allow(call))

SpecKey == InitKey /\ [][NextKey]_vars

(***************************************************************************)
(* The parameter builder.  Degrees and requested bit sizes are the         *)
(* source's.  The machine word is narrowed so that the arithmetic stays    *)
(* within the checker's integers: a modulus has at most MaxModulusBits     *)
(* bits where the source allows 62, and the primes of the extended basis   *)
(* are searched below 2^MaxModulusBits instead of 2^62; a word has         *)
(* MaxModulusBits + 2 bits.                                                *)
(***************************************************************************)
MaxModulusBits == 12

MinModulusBits == 10

\* a word has two bits more than a modulus (64 and 62 in the source)
WordBits == MaxModulusBits + 2

Word == 2 ^ WordBits

\* BfvParametersBuilder::new()
NewBuilder ==
    [degree |-> 0, plaintext |-> 0, variance |-> 1,
     ciphertext_moduli |-> <<>>, ciphertext_moduli_sizes |-> <<>>]

\* Modulus::new(p)
Modulus_new(p) ==
    IF p < 2 \/ BitLen(p) > MaxModulusBits
    THEN Err("modulus should be between 2 and 2^62-1")
    ELSE Ok(p)

set_degree(b, degree) ==
    IF degree < 8 \/ ~(\E k \in 0..BitLen(degree) : 2 ^ k = degree)
    THEN Err("The degree should be a power of two larger or equal to 8")
    ELSE Ok([b EXCEPT !.degree = degree])

set_plaintext_modulus(b, plaintext) ==
    IF Modulus_new(plaintext).tag # "Ok" THEN Modulus_new(plaintext)
    ELSE Ok([b EXCEPT !.plaintext = plaintext])

set_ciphertext_moduli_sizes(b, sizes) ==
    IF b.ciphertext_moduli # <<>>
    THEN Err("The set of ciphertext moduli is already specified")
    ELSE Ok([b EXCEPT !.ciphertext_moduli_sizes = sizes])

\* a setter that replaces the other list instead of refusing
set_ciphertext_moduli_replaces(b, moduli) ==
    Ok([b EXCEPT !.ciphertext_moduli = moduli])

set_ciphertext_moduli(b, moduli) ==
    IF b.ciphertext_moduli_sizes # <<>>
    THEN Err("The set of ciphertext moduli sizes is already specified")
    ELSE Ok([b EXCEPT !.ciphertext_moduli = moduli])

set_variance(b, variance) ==
    IF variance \notin 1..16 THEN Err("The variance must be in 1..=16")
    ELSE Ok([b EXCEPT !.variance = variance])

\* the largest prime below upper_bound that has num_bits bits and is 1
\* modulo `modulo`, searched downwards; 0 stands for None
RECURSIVE generate_prime(_, _, _)
generate_prime(num_bits, modulo, upper_bound) ==
    LET p == upper_bound - 1
    IN  IF num_bits \notin MinModulusBits..MaxModulusBits \/ p < 2 ^ (num_bits - 1) THEN 0
        ELSE IF p % modulo # 1
        THEN generate_prime(num_bits, modulo, p - ((p - 1) % modulo) + 1)
        ELSE IF IsPrime(p) THEN p
        ELSE generate_prime(num_bits, modulo, p - modulo + 1)

Contains(s, x) == \E i \in 1..Len(s) : s[i] = x

\* a search that accepts a prime it has already chosen
generate_moduli_repeats(sizes, degree, moduli, upper_bound) ==
    Ok([i \in 1..Len(sizes) |-> generate_prime(sizes[i], 2 * degree, 2 ^ sizes[i])])

\* generate_moduli, from the moduli found so far; upper_bound = 0 when the
\* search for the next size has not started
RECURSIVE generate_moduli(_, _, _, _)
generate_moduli(sizes, degree, moduli, upper_bound) ==
    IF Len(moduli) = Len(sizes) THEN Ok(moduli)
    ELSE LET size == sizes[Len(moduli) + 1]
         IN  IF size > MaxModulusBits \/ size < MinModulusBits
             THEN Err("The moduli sizes must be between 10 and 62 bits.")
             ELSE LET bound == IF upper_bound = 0 THEN 2 ^ size ELSE upper_bound
                      prime == generate_prime(size, 2 * degree, bound)
                  IN  IF prime = 0
                      THEN Err("Could not generate enough ciphertext moduli to match the sizes provided")
                      ELSE IF ~Contains(moduli, prime)
                      THEN generate_moduli(sizes, degree, Append(moduli, prime), 0)
                      ELSE generate_moduli(sizes, degree, moduli, prime)

\* native::NttOperator::new succeeds
supports_ntt(p, size) == p % (2 * size) = 1 /\ IsPrime(p)

\* an operator that exists as soon as the accelerated plan does
NttOperator_new_plan_only(p, size, plan) ==
    IF ~plan /\ ~supports_ntt(p, size) THEN None
    ELSE [p |-> p, size |-> size, plan |-> plan]

\* NttOperator::new(p, size); plan: Plan::try_new(size, p) is Some
NttOperator_new(p, size, plan) ==
    IF ~supports_ntt(p, size) THEN None
    ELSE [p |-> p, size |-> size, plan |-> plan]

RECURSIVE Gcd(_, _)
Gcd(a, b) == IF b = 0 THEN a ELSE Gcd(b, a % b)

\* RnsContext::new(moduli)
RnsContext_new(moduli) ==
    IF moduli = <<>> THEN Err("The list of moduli is empty")
    ELSE IF \E i \in 1..Len(moduli) : Modulus_new(moduli[i]).tag # "Ok"
    THEN Err("modulus should be between 2 and 2^62-1")
    ELSE IF \E i, j \in 1..Len(moduli) : i # j /\ Gcd(moduli[i], moduli[j]) # 1
    THEN Err("The moduli are not coprime")
    ELSE Ok(moduli)

\* Context::new(moduli, degree)
Context_new(moduli, degree) ==
    IF RnsContext_new(moduli).tag # "Ok" THEN RnsContext_new(moduli)
    ELSE IF \E i \in 1..Len(moduli) : ~supports_ntt(moduli[i], degree)
    THEN Err("Impossible to construct a Ntt operator")
    ELSE Ok(moduli)

\* the inverse of t instead of the inverse of -t
delta_rest_unsigned(q, t, debug) == Inv(q, t % q)

\* q.inv(q.neg(t)).unwrap(): the residue, or -1 when it aborts.  With assertions
\* (debug) neg aborts unless t < q; without, q - t wraps around the word and
\* neg returns Word + q - t, which inv takes to its inverse modulo q.
delta_rest(q, t, debug) ==
    IF t < q THEN Inv(q, Neg(q, t))
    ELSE IF debug \/ t = q THEN -1
    ELSE Inv(q, (Word + q - (t % q)) % q)

\* the extended basis: Len(moduli) + 1 primes of the largest size that are
\* not among the moduli; aborts when generate_prime(..).unwrap() finds none
RECURSIVE extended_basis(_, _, _, _)
extended_basis(moduli, degree, basis, upper_bound) ==
    IF Len(basis) = Len(moduli) + 1 THEN Ok(basis)
    ELSE LET prime == generate_prime(MaxModulusBits, 2 * degree, upper_bound)
         IN  IF prime = 0 THEN Panic
             ELSE extended_basis(moduli, degree,
                      IF ~Contains(basis, prime) /\ ~Contains(moduli, prime)
                      THEN Append(basis, prime) ELSE basis, prime)

\* build, from the statement after the moduli are known
build_from(b, moduli, debug, plan) ==
    LET t == b.plaintext
        rests == [i \in 1..Len(moduli) |-> delta_rest(moduli[i], t, debug)]
        ext == extended_basis(moduli, b.degree, <<>>, 2 ^ MaxModulusBits)
        sizes == [i \in 1..Len(moduli) |-> BitLen(moduli[i])]
        n_moduli == ((SumBits(moduli) + 60) + 61) \div 62
        ctx == Context_new(moduli, b.degree)
    IN  IF Modulus_new(t).tag # "Ok" THEN Modulus_new(t)
        ELSE IF ctx.tag # "Ok" THEN ctx
        ELSE IF \E i \in 1..Len(moduli) : rests[i] = -1 THEN Panic
        ELSE IF ext.tag # "Ok" THEN Panic
        ELSE IF n_moduli > Len(ext.val) THEN Panic
        ELSE Ok([par |-> BfvParameters(t, moduli, b.variance, ext.val),
                 polynomial_degree |-> b.degree,
                 ciphertext_moduli_sizes |-> sizes,
                 op |-> NttOperator_new(t, b.degree, plan),
                 delta |-> Lift(rests, moduli),
                 q_mod_t |-> Prod(moduli) % t])

\* BfvParametersBuilder::build
build(b, debug, plan) ==
    IF b.degree = 0 THEN Err("Unspecified degree")
    ELSE IF b.plaintext = 0 THEN Err("Unspecified plaintext modulus")
    ELSE IF b.ciphertext_moduli = <<>> /\ b.ciphertext_moduli_sizes = <<>>
    THEN Err("Unspecified ciphertext moduli")
    ELSE LET gen == IF b.ciphertext_moduli_sizes # <<>>
                    THEN generate_moduli(b.ciphertext_moduli_sizes, b.degree, <<>>, 0)
                    ELSE Ok(b.ciphertext_moduli)
         IN  IF gen.tag # "Ok" THEN gen
             ELSE build_from(b, gen.val, debug, plan)

\* the inputs of the calls
Degrees == {7, 8, 24, 64}

PlaintextModuli == {0, 2, 17, 1153, 4096}

Variances == {0, 3}

ModuliLists == {<<>>, <<1>>, <<2>>, <<1153>>, <<1153, 769>>, <<1153, 1153>>}

SizeLists == {<<>>, <<9>>, <<13>>, <<10>>, <<10, 10>>, <<11, 10>>, <<10, 10, 10>>}

\* a call on the builder; a setter that succeeds updates it in place
BuilderCall(op, arg, res) ==
    /\ fuel > 0
    /\ last.tag # "Panic"
    /\ fuel' = fuel - 1
    /\ \E r \in {res} :
           /\ builder' = IF r.tag = "Ok" /\ op # "build" THEN r.val ELSE builder
           /\ last' = OpRecord(op, 0, builder, arg, None, r, Unknown, Unknown)
    /\ UNCHANGED <<sk, ek, reg, gh, wire, call, zq>>

InitBuild ==
    /\ InitKeys({ParOne}, {1}, {FALSE}, {0})
    /\ reg = [r \in Regs |-> zero(sk.par)]
    /\ gh = [r \in Regs |-> Unknown]
    /\ wire = None
    /\ last = OpRecord("new", 0, None, None, None, Ok(None), Unknown, Unknown)
    /\ call = None
    /\ builder = NewBuilder
    /\ zq = None
    /\ fuel = MaxBuilderCalls

NextBuild ==
    \/ \E d \in Degrees : BuilderCall("set_degree", d, set_degree(builder, d))
    \/ \E t \in PlaintextModuli :
           BuilderCall("set_plaintext_modulus", t, set_plaintext_modulus(builder, t))
    \/ \E s \in SizeLists :
           BuilderCall("set_ciphertext_moduli_sizes", s, set_ciphertext_moduli_sizes(builder, s))
    \/ \E m \in ModuliLists :
           BuilderCall("set_ciphertext_moduli", m, set_ciphertext_moduli(builder, m))
    \/ \E v \in Variances : BuilderCall("set_variance", v, set_variance(builder, v))
    \/ \E debug, plan \in BOOLEAN :
           BuilderCall("build", [debug |-> debug, plan |-> plan], build(builder, debug, plan))

SpecBuild == InitBuild /\ [][NextBuild]_vars

(***************************************************************************)
(* The scalar kernel of zq.  A word has WordBits bits where the source has *)
(* 64, a double word twice as many; a modulus has at most WordBits - 2     *)
(* bits.  An operation yields its value, or Abort when an assertion of a   *)
(* debug build fails or an addition, subtraction or multiplication of a    *)
(* debug build overflows; a release build wraps around the word and        *)
(* asserts nothing.                                                        *)
(***************************************************************************)
Abort == -1

\* bitwise operators on words
RECURSIVE Xor(_, _)
Xor(x, y) ==
    IF x = 0 /\ y = 0 THEN 0
    ELSE (((x % 2) + (y % 2)) % 2) + 2 * Xor(x \div 2, y \div 2)

RECURSIVE And(_, _)
And(x, y) ==
    IF x = 0 \/ y = 0 THEN 0
    ELSE ((x % 2) * (y % 2)) + 2 * And(x \div 2, y \div 2)

Not(x) == Word - 1 - x

\* x + y on words: aborts on overflow in a debug build, wraps otherwise
WAdd(x, y, debug) ==
    IF x = Abort \/ y = Abort THEN Abort
    ELSE IF x + y >= Word THEN (IF debug THEN Abort ELSE (x + y) % Word)
    ELSE x + y

\* x - y on words
WSub(x, y, debug) ==
    IF x = Abort \/ y = Abort THEN Abort
    ELSE IF x < y THEN (IF debug THEN Abort ELSE (x - y) % Word)
    ELSE x - y

\* a reduction that takes x as reduced when it is not: no subtraction
reduce1_keeps(x, p, debug) == x

\* reduce1: x mod p for x < 2p, without a branch
reduce1(x, p, debug) ==
    IF x = Abort THEN Abort
    ELSE IF debug /\ (p >= Word \div 2 \/ x >= 2 * p) THEN Abort
    ELSE LET y == (x - p) % Word
             xp == Xor(x, p)
             yp == Xor(y, p)
             xy == Xor(xp, yp)
             xxy == Xor(x, xy) \div (Word \div 2)
             c == (xxy - 1) % Word
             r == And(c, y) + And(Not(c), x)
         IN  IF debug /\ r # x % p THEN Abort ELSE r

\* a branch that takes x = p as reduced
reduce1_vt_strict(x, p, debug) ==
    IF x = Abort THEN Abort
    ELSE IF debug /\ (p >= Word \div 2 \/ x >= 2 * p) THEN Abort
    ELSE IF x > p THEN x - p ELSE x

\* reduce1_vt: the same with a branch
reduce1_vt(x, p, debug) ==
    IF x = Abort THEN Abort
    ELSE IF debug /\ (p >= Word \div 2 \/ x >= 2 * p) THEN Abort
    ELSE IF x >= p THEN x - p ELSE x

\* the reduction of the constant-time or of the variable-time entry point
Reduce1(vt, x, p, debug) == IF vt THEN reduce1_vt(x, p, debug) ELSE reduce1(x, p, debug)

\* x + y on double words
DAdd(x, y, debug) ==
    IF x = Abort \/ y = Abort THEN Abort
    ELSE IF x + y >= Word * Word THEN (IF debug THEN Abort ELSE (x + y) % (Word * Word))
    ELSE x + y

\* a lazy reduction that keeps the quotient of the high word only
lazy_reduce_u128_high(p, a, debug) ==
    LET barrett_hi == ((Word * Word) \div p) \div Word
        q == (a \div Word) * barrett_hi
    IN  (a - q * p) % Word

\* lazy_reduce_u128: a double word a to [0, 2p) by the Barrett constants
lazy_reduce_u128(p, a, debug) ==
    LET barrett == (Word * Word) \div p
        barrett_hi == barrett \div Word
        barrett_lo == barrett % Word
        a_lo == a % Word
        a_hi == a \div Word
        p_lo_lo == (a_lo * barrett_lo) \div Word
        p_hi_lo == a_hi * barrett_lo
        p_lo_hi == a_lo * barrett_hi
        sum == DAdd(DAdd(p_lo_hi, p_hi_lo, debug), p_lo_lo, debug)
        q == IF sum = Abort THEN Abort
             ELSE DAdd(sum \div Word, a_hi * barrett_hi, debug)
        r == (a - q * p) % Word
    IN  IF q = Abort THEN Abort
        ELSE IF debug /\ (q * p > a \/ r >= 2 * p \/ r % p # a % p) THEN Abort
        ELSE r

\* lazy_reduce: a word a to [0, 2p)
lazy_reduce(p, a, debug) ==
    LET barrett == (Word * Word) \div p
        barrett_hi == barrett \div Word
        barrett_lo == barrett % Word
        p_lo_lo == (a * barrett_lo) \div Word
        p_lo_hi == a * barrett_hi
        sum == DAdd(p_lo_hi, p_lo_lo, debug)
        q == IF sum = Abort THEN Abort ELSE sum \div Word
        r == (a - q * p) % Word
    IN  IF q = Abort THEN Abort
        ELSE IF debug /\ (q * p > a \/ r >= 2 * p \/ r % p # a % p) THEN Abort
        ELSE r

\* Modulus::reduce and reduce_vt
reduce(p, a, vt, debug) == Reduce1(vt, lazy_reduce(p, a, debug), p, debug)

\* Modulus::reduce_u128 and reduce_u128_vt
reduce_u128(p, a, vt, debug) == Reduce1(vt, lazy_reduce_u128(p, a, debug), p, debug)

\* Modulus::reduce_i64 and reduce_i64_vt: a is a signed word
reduce_i64(p, a, vt, debug) == reduce_u128(p, (p * Word + a) % (Word * Word), vt, debug)

\* Modulus::add and add_vt
zq_add(p, a, b, vt, debug) ==
    IF debug /\ ~(a < p /\ b < p) THEN Abort
    ELSE Reduce1(vt, WAdd(a, b, debug), p, debug)

\* Modulus::sub and sub_vt
zq_sub(p, a, b, vt, debug) ==
    IF debug /\ ~(a < p /\ b < p) THEN Abort
    ELSE Reduce1(vt, WSub(WAdd(a, p, debug), b, debug), p, debug)

\* Modulus::neg and neg_vt
zq_neg(p, a, vt, debug) ==
    IF debug /\ ~(a < p) THEN Abort
    ELSE Reduce1(vt, WSub(p, a, debug), p, debug)

\* Modulus::mul and mul_vt
zq_mul(p, a, b, vt, debug) ==
    IF debug /\ ~(a < p /\ b < p) THEN Abort
    ELSE Reduce1(vt, lazy_reduce_u128(p, a * b, debug), p, debug)

\* a word read as a signed word, and a signed value wrapped into the signed
\* range
AsSigned(x) == IF x >= Word \div 2 THEN x - Word ELSE x

WrapSigned(v) == AsSigned(v % Word)

\* a call of Modulus::center_vt: a debug build asserts a < p
center_vt_call(p, a, debug) ==
    IF debug /\ ~(a < p) THEN Panic
    ELSE IF a >= p \div 2 THEN Ok(WrapSigned(AsSigned(a) - AsSigned(p)))
    ELSE Ok(AsSigned(a))

\* Modulus::shoup
shoup(p, a, debug) ==
    IF debug /\ ~(a < p) THEN Abort ELSE ((a * Word) \div p) % Word

\* Modulus::lazy_mul_shoup
lazy_mul_shoup(p, a, b, b_shoup, debug) ==
    LET q == (a * b_shoup) \div Word
        r == (a * b - q * p) % Word
    IN  IF debug /\ (b >= p \/ b_shoup # shoup(p, b, debug)) THEN Abort
        ELSE IF debug /\ (q * p > a * b \/ r >= 2 * p) THEN Abort
        ELSE r

\* a Shoup multiplication that returns the lazy product without the final
\* conditional subtraction
mul_shoup_vt_lazy(p, a, b, b_shoup, debug) ==
    lazy_mul_shoup(p, a, b, b_shoup, debug)

\* Modulus::mul_shoup
mul_shoup(p, a, b, b_shoup, debug) ==
    reduce1(lazy_mul_shoup(p, a, b, b_shoup, debug), p, debug)

\* Modulus::mul_shoup_vt
mul_shoup_vt(p, a, b, b_shoup, debug) ==
    reduce1_vt(lazy_mul_shoup(p, a, b, b_shoup, debug), p, debug)

\* Modulus::scalar_mul_vec: the vector after the call
scalar_mul_vec(p, a, b, debug) ==
    LET b_shoup == shoup(p, b, debug)
        out == [i \in 1..Len(a) |-> mul_shoup(p, a[i], b, b_shoup, debug)]
    IN  IF b_shoup = Abort \/ \E i \in 1..Len(a) : out[i] = Abort THEN Panic
        ELSE Ok(out)

\* the loop of Modulus::pow, from bit i of n downwards
RECURSIVE pow_loop(_, _, _, _, _, _)
pow_loop(p, a, n, r, i, debug) ==
    IF i < 0 \/ r = Abort THEN r
    ELSE LET sq == zq_mul(p, r, r, FALSE, debug)
             nx == IF (n \div (2 ^ i)) % 2 = 1 /\ sq # Abort
                   THEN zq_mul(p, sq, a, FALSE, debug) ELSE sq
         IN  pow_loop(p, a, n, nx, i - 1, debug)

\* an exponentiation whose scan starts at the most significant set bit
pow_scans_top(p, a, n, debug) ==
    IF debug /\ ~(a < p /\ n < p) THEN Abort
    ELSE IF n = 0 THEN 1
    ELSE IF n = 1 THEN a
    ELSE pow_loop(p, a, n, a, BitLen(n) - 1, debug)

\* Modulus::pow
pow(p, a, n, debug) ==
    IF debug /\ ~(a < p /\ n < p) THEN Abort
    ELSE IF n = 0 THEN 1
    ELSE IF n = 1 THEN a
    ELSE pow_loop(p, a, n, a, BitLen(n) - 2, debug)

\* the bits from position k of a sequence of units of nbits bits each, the
\* least significant bit of a unit first, as the value of n bits; the
\* positions past the end hold 0
RECURSIVE BitsValue(_, _, _, _)
BitsValue(units, nbits, k, n) ==
    IF n = 0 THEN 0
    ELSE (IF k >= nbits * Len(units) THEN 0
          ELSE (units[(k \div nbits) + 1] \div (2 ^ (k % nbits))) % 2)
         + 2 * BitsValue(units, nbits, k + 1, n - 1)

\* a packing that gives every entry a whole number of bytes
transcode_forward_bytewise(a, nbits) ==
    [m \in 1..(((nbits + 7) \div 8) * Len(a)) |->
         BitsValue(a, 8 * ((nbits + 7) \div 8), 8 * (m - 1), 8)]

\* util::transcode_forward: the low nbits bits of every entry, packed one
\* after the other into bytes
transcode_forward(a, nbits) ==
    [m \in 1..((nbits * Len(a) + 7) \div 8) |-> BitsValue(a, nbits, 8 * (m - 1), 8)]

\* util::transcode_backward: the bits of the bytes, cut into entries of nbits
\* bits
transcode_backward(b, nbits) ==
    [i \in 1..((8 * Len(b) + nbits - 1) \div nbits) |-> BitsValue(b, 8, nbits * (i - 1), nbits)]

\* the bit length of p itself
p_nbits_of_p(p) == BitLen(p)

\* the bit length the entries of a vector modulo p are packed to
p_nbits(p) == BitLen(p - 1)

\* Modulus::serialization_length
serialization_length(p, size) ==
    IF size % 8 # 0 THEN Abort ELSE (p_nbits(p) * size) \div 8

\* Modulus::serialize_vec
serialize_vec(p, a) == transcode_forward(a, p_nbits(p))

\* Modulus::deserialize_vec
deserialize_vec(p, b) == transcode_backward(b, p_nbits(p))

\* the vectors of a call: of 0, 8 or 16 entries; reduced modulo p, all p - 1,
\* or any words
ZqVector(j, n, a, b, p) ==
    [i \in 1..n |-> IF j = 0 THEN (a * i + b) % p
                    ELSE IF j = 1 THEN p - 1
                    ELSE (a * i + b) % Word]

\* the inputs: every small modulus with every input up to just above it, and
\* the largest moduli with inputs at the edges of their range
SmallModuli == 2..9

LargeModuli == {2 ^ MaxModulusBits - 3, 2 ^ MaxModulusBits - 1}

ZqInputs(p) ==
    IF p \in SmallModuli THEN 0..(p + 1)
    ELSE {0, 1, p \div 2, p - 2, p - 1, p, p + 1, Word - 1}

\* the outcome of a kernel operation as a result
ZqResult(v) == IF v = Abort THEN Panic ELSE Ok(v)

\* one call of a kernel operation on the inputs drawn
ZqCall(op, vt, k, res) ==
    /\ fuel > 0
    /\ fuel' = fuel - 1
    /\ \E r \in {res} : last' = OpRecord(op, k, zq.a, zq.b, vt, r, Unknown, Unknown)
    /\ UNCHANGED <<sk, ek, reg, gh, wire, call, builder, zq>>

\* one call on operands derived from the inputs drawn
ZqCallOn(op, vt, k, x, y, res) ==
    /\ fuel > 0
    /\ fuel' = fuel - 1
    /\ \E r \in {res} : last' = OpRecord(op, k, x, y, vt, r, Unknown, Unknown)
    /\ UNCHANGED <<sk, ek, reg, gh, wire, call, builder, zq>>

\* the moduli of a call of reduce1, which is not tied to a Modulus: the one
\* drawn, the one below it, and two at the top of the range, the last of
\* them with its top bit set
ZqModulus(k, p) ==
    IF k = 0 THEN p
    ELSE IF k = 1 THEN p - 1
    ELSE IF k = 2 THEN (Word \div 2) + 1 - p
    ELSE (Word \div 2) - 2 + p

\* the words at the edges of [0, 2p): a, p + a and 2p - 1 - a
ZqOperand(j, a, p) ==
    IF j = 0 THEN a
    ELSE IF j = 1 THEN (p + a) % Word
    ELSE (2 * p - 1 - a) % Word

\* words over the whole range of a word: a, the word as far from the top as
\* a is from 0, and the multiples of a step that spreads the inputs of a
\* small modulus over the word
ZqWide(j, a, p) ==
    IF j = 0 THEN a
    ELSE IF j = 1 THEN Word - 1 - a
    ELSE (a * (Word \div (p + 2))) % Word

\* signed words over the whole signed range: those of ZqWide read as signed,
\* and those next to the least and to the greatest signed word
ZqSigned(j, a, p) ==
    IF j = 3 THEN WrapSigned(a - (Word \div 2))
    ELSE IF j = 4 THEN WrapSigned((Word \div 2) - 1 - a)
    ELSE AsSigned(ZqWide(j, a, p))

InitZq ==
    /\ InitKeys({ParOne}, {1}, {FALSE}, {0})
    /\ reg = [r \in Regs |-> zero(sk.par)]
    /\ gh = [r \in Regs |-> Unknown]
    /\ wire = None
    /\ last = OpRecord("new", 0, None, None, None, Ok(None), Unknown, Unknown)
    /\ call = None
    /\ builder = None
    /\ \E p \in SmallModuli \cup LargeModuli, debug, good \in BOOLEAN :
           \E a, b \in ZqInputs(p) :
               zq = [p |-> p, a |-> a, b |-> b, debug |-> debug,
                     b_shoup |-> IF good THEN ((b * Word) \div p) % Word
                                 ELSE (((b * Word) \div p) + 1) % Word]
    /\ fuel = MaxZqCalls

NextZq ==
    \/ \E vt \in BOOLEAN :
           ZqCall("add", vt, 0, ZqResult(zq_add(zq.p, zq.a, zq.b, vt, zq.debug)))
    \/ \E vt \in BOOLEAN :
           ZqCall("sub", vt, 0, ZqResult(zq_sub(zq.p, zq.a, zq.b, vt, zq.debug)))
    \/ \E vt \in BOOLEAN :
           ZqCall("neg", vt, 0, ZqResult(zq_neg(zq.p, zq.a, vt, zq.debug)))
    \/ \E vt \in BOOLEAN :
           ZqCall("mul", vt, 0, ZqResult(zq_mul(zq.p, zq.a, zq.b, vt, zq.debug)))
    \/ ZqCall("shoup", FALSE, 0, ZqResult(shoup(zq.p, zq.a, zq.debug)))
    \/ ZqCall("pow", FALSE, 0, ZqResult(pow(zq.p, zq.a, zq.b, zq.debug)))
    \/ ZqCall("mul_shoup", FALSE, 0,
              ZqResult(mul_shoup(zq.p, zq.a, zq.b, zq.b_shoup, zq.debug)))
    \/ \E k \in 1..2 :
           ZqCall("scalar_mul_vec", FALSE, k,
                  scalar_mul_vec(zq.p, [i \in 1..2 |-> IF i = k THEN zq.a ELSE 0],
                                 zq.b, zq.debug))
    \/ \E j \in 0..2 :
           ZqCallOn("lazy_mul_shoup", FALSE, j, ZqWide(j, zq.a, zq.p), zq.b,
                    ZqResult(lazy_mul_shoup(zq.p, ZqWide(j, zq.a, zq.p), zq.b,
                                            zq.b_shoup, zq.debug)))
    \/ \E j \in 0..2 :
           ZqCallOn("mul_shoup_vt", TRUE, j, ZqWide(j, zq.a, zq.p), zq.b,
                    ZqResult(mul_shoup_vt(zq.p, ZqWide(j, zq.a, zq.p), zq.b,
                                          zq.b_shoup, zq.debug)))
    \/ \E j \in 0..2, vt \in BOOLEAN :
           ZqCallOn("reduce", vt, j, ZqWide(j, zq.a, zq.p), 0,
                    ZqResult(reduce(zq.p, ZqWide(j, zq.a, zq.p), vt, zq.debug)))
    \/ \E j \in 0..2, k \in 0..2, vt \in BOOLEAN :
           ZqCallOn("reduce_u128", vt, 3 * j + k,
                    ZqWide(j, zq.a, zq.p) * Word + ZqWide(k, zq.b, zq.p), 0,
                    ZqResult(reduce_u128(zq.p, ZqWide(j, zq.a, zq.p) * Word
                                                   + ZqWide(k, zq.b, zq.p),
                                         vt, zq.debug)))
    \/ \E j \in 0..4, vt \in BOOLEAN :
           ZqCallOn("reduce_i64", vt, j, ZqSigned(j, zq.a, zq.p), 0,
                    ZqResult(reduce_i64(zq.p, ZqSigned(j, zq.a, zq.p), vt, zq.debug)))
    \/ \E j \in 0..2, n \in {0, 8, 16} :
           ZqCallOn("serialize_vec", FALSE, j, ZqVector(j, n, zq.a, zq.b, zq.p), 0,
                    Ok(serialize_vec(zq.p, ZqVector(j, n, zq.a, zq.b, zq.p))))
    \/ \E j \in 0..2, n \in {0, 8, 16} :
           ZqCallOn("deserialize_vec", FALSE, j,
                    serialize_vec(zq.p, ZqVector(j, n, zq.a, zq.b, zq.p)),
                    ZqVector(j, n, zq.a, zq.b, zq.p),
                    Ok(deserialize_vec(zq.p,
                           serialize_vec(zq.p, ZqVector(j, n, zq.a, zq.b, zq.p)))))
    \/ \E n \in {0, 4, 8, 16} :
           ZqCallOn("serialization_length", FALSE, 0, n, 0,
                    ZqResult(serialization_length(zq.p, n)))
    \/ ZqCall("center_vt", TRUE, 0, center_vt_call(zq.p, zq.a, zq.debug))
    \/ \E k \in 0..3, j \in 0..2, vt \in BOOLEAN :
           ZqCallOn("reduce1", vt, k, ZqOperand(j, zq.a, ZqModulus(k, zq.p)),
                    ZqModulus(k, zq.p),
                    ZqResult(Reduce1(vt, ZqOperand(j, zq.a, ZqModulus(k, zq.p)),
                                     ZqModulus(k, zq.p), zq.debug)))

SpecZq == InitZq /\ [][NextZq]_vars

(***************************************************************************)
(* Deserialization of a message that has arrived: any sequence of up to    *)
(* three encoded elements, with or without a seed field of any length,     *)
(* with either flag, or bytes that are no message at all.                  *)
(***************************************************************************)
\* bytes that CiphertextProto::parse_from_bytes rejects
Unparsable == [unparsable |-> TRUE]

\* Deserialize::try_deserialize
try_deserialize(bytes, par) ==
    IF bytes = Unparsable THEN Err("This serialization is incorrect")
    ELSE try_convert_from(bytes, par)

\* the encoded elements of a message: one row below 37, one row of 37, two
\* rows below 37 and 31
WireLimbs == {[coefficients |-> <<36>>], [coefficients |-> <<37>>],
              [coefficients |-> <<1, 30>>]}

\* the seed fields of a message: empty, of the seed length, shorter, longer
WireSeeds == {NoSeed, Seed(1), [len |-> SeedLen - 16, key |-> 1],
              [len |-> SeedLen + 1, key |-> 1]}

WireMessages ==
    { CiphertextProto(c, seed, minimized) :
          c \in UNION { [1..n -> WireLimbs] : n \in 0..MaxWireLimbs },
          seed \in WireSeeds, minimized \in BOOLEAN }
        \cup {Unparsable}

\* the bytes of a message arrive
Receive(msg) ==
    /\ Step
    /\ wire = None
    /\ wire' = msg
    /\ last' = OpRecord("receive", 0, None, None, None, Ok(msg), Unknown, Unknown)
    /\ UNCHANGED <<reg, gh>>

\* let reg[d] = Ciphertext::try_deserialize(&wire, &par)?
TryDeserialize(d, par) ==
    /\ Step
    /\ wire # None
    /\ \E res \in {try_deserialize(wire, par)} :
          Apply("try_deserialize", d, wire, par, None, res, Unknown, Unknown, Unknown)

InitWire ==
    /\ InitKeys(ParSets, SKVals, BOOLEAN, KskErrs)
    /\ reg = [r \in Regs |-> zero(sk.par)]
    /\ gh = [r \in Regs |-> Unknown]
    /\ wire = None
    /\ last = OpRecord("init", 0, None, None, None, Ok(None), Unknown, Unknown)
    /\ call = None
    /\ builder = None
    /\ zq = None
    /\ fuel = MaxWireOps

NextWire ==
    \/ \E msg \in WireMessages : Receive(msg)
    \/ \E d \in Regs, par \in ParSets : TryDeserialize(d, par)

SpecWire == InitWire /\ [][NextWire]_vars

(***************************************************************************)
(* Key switching: KeySwitchingKey::new from any ring element, and          *)
(* key_switch of any ring element under the key made last.  gh holds the   *)
(* element and the errors the key was made from.                           *)
(***************************************************************************)
\* two small moduli, whose ring elements are all drawn, and three moduli
ParKsk == BfvParameters(2, <<5, 7>>, 1, <<61, 59, 53>>)

ParKskThree == BfvParameters(2, <<3, 5, 7>>, 1, <<61, 59, 53, 47>>)

KskParSets == {ParOne, ParKsk, ParTwo, ParKskThree}

\* the ring elements a key is made from: those at the edges of [0, Q)
KskFroms(par) ==
    { PolyFromInt(ParCtx(par), x) :
          x \in {0, 1, 2, BigQ(par) \div 2, BigQ(par) - 2, BigQ(par) - 1} }

\* the ring elements switched: all of them under a small modulus, those at
\* the edges of [0, Q) otherwise
KskPolys(par) ==
    IF BigQ(par) <= 40 THEN { PolyFromInt(ParCtx(par), x) : x \in 0..(BigQ(par) - 1) }
    ELSE KskFroms(par)

\* the errors drawn, one per modulus: all of them for one modulus, the least
\* one, none and one in between for more
KskErrLists(par) ==
    IF Len(par.ciphertext_moduli) <= 1
    THEN [1..Len(par.ciphertext_moduli) -> SmallRange(par.variance)]
    ELSE [1..Len(par.ciphertext_moduli) -> {-2, 0, 1}]

\* let ksk = KeySwitchingKey::new(&sk, &from)?
KskNew(from, seed, errs) ==
    /\ fuel > 1
    /\ fuel' = fuel - 1
    /\ \E k \in {KeySwitchingKey(sk, from, seed, errs)} :
           /\ ek' = [ek EXCEPT !.ksk = k]
           /\ last' = OpRecord("ksk_new", 0, from, errs, None, Ok(k), Unknown, Unknown)
    /\ gh' = [from |-> from, errs |-> errs]
    /\ UNCHANGED <<sk, reg, wire, call, builder, zq>>

\* let (c0, c1) = ksk.key_switch(&p)?
KeySwitch(p) ==
    /\ fuel > 0
    /\ fuel' = fuel - 1
    /\ \E r \in {key_switch(ek.ksk, p)} :
           last' = OpRecord("key_switch", 0, p, None, None, Ok(r), Unknown, Unknown)
    /\ UNCHANGED <<sk, ek, reg, gh, wire, call, builder, zq>>

InitKsk ==
    /\ \E par \in KskParSets, sv \in {-1, 2} : \E errs \in KskErrLists(par) :
           /\ sk = SecretKey(par, sv)
           /\ ek = EvaluationKey(SecretKey(par, sv), TRUE, KskSeed, errs)
           /\ gh = [from |-> PolyMul(SecretKey(par, sv).s, SecretKey(par, sv).s),
                    errs |-> errs]
    /\ reg = [r \in Regs |-> zero(sk.par)]
    /\ wire = None
    /\ last = OpRecord("new", 0, None, None, None, Ok(None), Unknown, Unknown)
    /\ call = None
    /\ builder = None
    /\ zq = None
    /\ fuel = MaxKskCalls

NextKsk ==
    \/ \E from \in KskFroms(sk.par), seed \in {Seed(1), KskSeed},
          errs \in KskErrLists(sk.par) : KskNew(from, seed, errs)
    \/ \E p \in KskPolys(sk.par) : KeySwitch(p)

SpecKsk == InitKsk /\ [][NextKsk]_vars

(***************************************************************************)
(* Properties.                                                             *)
(***************************************************************************)
\* the homomorphic operators, and those of them with two ciphertext operands
HomOps == {"add", "add_assign", "sub", "sub_assign", "neg", "mul_pt", "mul_assign_pt",
           "mul_ct", "mul", "mul2"}

BinOps == {"add", "add_assign", "sub", "sub_assign", "mul_ct", "mul", "mul2"}

AddOps == {"add", "add_assign"}

SubOps == {"sub", "sub_assign"}

PtOps == {"mul_pt", "mul_assign_pt"}

\* an operand of the recorded operation is minimized
MinOperand(rec) == rec.lhs.minimized \/ (rec.op \in BinOps /\ rec.rhs.minimized)

\* a precondition of the recorded operator fails: the parameter sets of the
\* operands differ, an operand is minimized, or the operands of an addition
\* or subtraction hold different numbers of elements (the left not empty)
PreconditionFails(rec) ==
    \/ MinOperand(rec)
    \/ rec.op \in BinOps /\ rec.lhs.par # rec.rhs.par
    \/ rec.op \in PtOps /\ rec.lhs.par # rec.pt.par
    \/ /\ rec.op \in AddOps \cup SubOps
       /\ Len(rec.lhs.c) # 0
       /\ Len(rec.lhs.c) # Len(rec.rhs.c)

\* the five failures of mul and mul2, each tested only if those before it
\* did not occur
MulFailure(rec) ==
    IF ~supports_relinearization(ek)
        THEN "The evaluation key does not support relinearization"
    ELSE IF rec.lhs.par # rec.rhs.par THEN "Incompatible parameters"
    ELSE IF rec.lhs.minimized \/ rec.rhs.minimized
        THEN "A ciphertext is minimized and cannot be operated on"
    ELSE IF Len(rec.lhs.par.ciphertext_moduli) = 1
        THEN "Parameters do not allow for multiplication"
    ELSE IF Len(rec.lhs.c) # 2 \/ Len(rec.rhs.c) # 2
        THEN "Multiplication can only be performed on ciphertexts of size 2"
    ELSE ""

\* the largest absolute value of a coefficient of an error
ErrorBound(par) == 2 * par.variance

\* the ciphertext modulus leaves room for n errors and n encoding
\* remainders, and the first modulus for a scaled value plus t
Budget(par, n) ==
    /\ 2 * n * (par.plaintext_modulus * ErrorBound(par) + par.plaintext_modulus - 1)
           < BigQ(par)
    /\ 3 * par.plaintext_modulus + 1 < 2 * par.ciphertext_moduli[1]

\* the recorded operand is a fresh encryption
Fresh(ct) == ct.seed # NoSeed /\ ~ct.minimized /\ Len(ct.c) = 2

\* C1: a homomorphic operator with a minimized operand fails, produces no
\* result and changes no ciphertext variable; the operations that accept a
\* minimized ciphertext (the wire conversions) keep the flag, so no step
\* turns a minimized ciphertext into one with minimized = false.
C1_MinimizedIsFinal ==
    [][/\ (last'.op \in HomOps /\ MinOperand(last'))
            => (last'.tag # "Ok" /\ last'.out = None /\ reg' = reg)
       /\ (last'.op = "to_proto" /\ last'.tag = "Ok" /\ last'.lhs.minimized)
            => wire'.minimized
       /\ (last'.op = "try_convert_from" /\ last'.tag = "Ok" /\ wire.minimized)
            => last'.out.minimized
       /\ (last'.op = "minimizes" /\ last'.tag = "Ok") => last'.out.minimized]_vars

\* a += whose right operand is minimized has failed
C1_Witness ==
    /\ last.op = "add_assign"
    /\ last.rhs.minimized /\ ~last.lhs.minimized
    /\ last.tag # "Ok"

\* C2: decrypting a minimized fresh encryption of pt returns Ok(pt); stated
\* for the parameter sets of two moduli under which the encryption itself
\* decrypts to pt, so that minimization changes the context of the elements.
C2_MinimizeThenDecrypt ==
    (/\ last.op = "decrypt" /\ last.lhs.minimized /\ last.lw.known /\ last.lw.n = 1
     /\ Len(sk.par.ciphertext_moduli) = 2 /\ Budget(sk.par, 1))
        => /\ last.tag = "Ok"
           /\ last.out = Plaintext(sk.par, last.lw.w)

\* C3: a precondition failure of +, -, unary -, * Plaintext or * Ciphertext
\* is returned to the caller as an error value; the operator does not abort.
C3_ExplicitFailure ==
    (last.op \in HomOps \ {"mul", "mul2"} /\ PreconditionFails(last)) => last.tag = "Err"

\* C4: a ciphertext made by encrypt, homomorphic operators and minimizes
\* (two or more elements) converts to the wire format, and the wire format
\* converts back, under the same parameters, to an equal ciphertext.
C4_WireRoundTrip ==
    (last.op = "to_proto" /\ Len(last.lhs.c) >= 2)
        => /\ last.tag = "Ok"
           /\ try_convert_from(wire, last.lhs.par) = Ok(last.lhs)

\* C5 as stated: the result of +, -, unary - and * Plaintext has no seed,
\* also when the left operand is the empty ciphertext.
C5_SeedCleared ==
    (last.op \in AddOps \cup SubOps \cup PtOps \cup {"neg"} /\ last.tag = "Ok")
        => last.out.seed = NoSeed

\* C5 amended: the result of +, -, unary - and * Plaintext has no seed,
\* except that + into an empty left operand adopts the right operand with
\* its seed.
C5_SeedClearedUnlessAdopted ==
    (last.op \in AddOps \cup SubOps \cup PtOps \cup {"neg"} /\ last.tag = "Ok")
        => IF last.op \in AddOps /\ Len(last.lhs.c) = 0
               THEN last.out.seed = last.rhs.seed
               ELSE last.out.seed = NoSeed

\* a += of two ciphertexts that each carry a seed has succeeded
C5_Witness ==
    /\ last.op = "add_assign" /\ last.tag = "Ok"
    /\ last.lhs.seed # NoSeed /\ last.rhs.seed # NoSeed

\* C6: += into the empty ciphertext of the same parameters gives the right
\* operand, and -= gives its negation, whatever the number of elements of
\* the right operand: no comparison of the numbers of elements fails.
C6_EmptyAccumulatorAdopts ==
    (/\ last.op \in {"add_assign", "sub_assign"}
     /\ Len(last.lhs.c) = 0 /\ ~last.lhs.minimized
     /\ last.lhs.par = last.rhs.par /\ ~last.rhs.minimized)
        => /\ last.tag = "Ok"
           /\ Len(last.out.c) = Len(last.rhs.c)
           /\ reg[last.dst] = last.out
           /\ last.op = "add_assign" => last.out.c = last.rhs.c
           /\ last.op = "sub_assign" =>
                 \A i \in 1..Len(last.rhs.c) : last.out.c[i] = PolyNeg(last.rhs.c[i])

\* a -= of a ciphertext of two elements into the empty ciphertext
C6_Witness ==
    /\ last.op = "sub_assign" /\ last.tag = "Ok"
    /\ Len(last.lhs.c) = 0 /\ Len(last.rhs.c) = 2

\* C7: mul and mul2 never abort; they return the error of the first failing
\* test in the order above and leave the ciphertext variables alone; a
\* result has two elements, no seed, minimized = false and the parameters of
\* the first operand.
C7_MulErrorsInOrder ==
    last.op \in {"mul", "mul2"}
        => /\ last.tag \in {"Ok", "Err"}
           /\ MulFailure(last) # "" => (last.tag = "Err" /\ last.msg = MulFailure(last))
           /\ last.tag = "Ok" =>
                 /\ Len(last.out.c) = 2
                 /\ last.out.seed = NoSeed
                 /\ ~last.out.minimized
                 /\ last.out.par = last.lhs.par

\* mul2 has returned a ciphertext
C7_Witness == last.op = "mul2" /\ last.tag = "Ok"

\* C8 as stated: every ciphertext variable holds 0, 2 or 3 elements.
C8_ZeroTwoOrThreeLimbs == \A r \in Regs : Len(reg[r].c) \in {0, 2, 3}

\* C8 amended: the number of elements is set by the operator: 0 for zero, 2
\* for encrypt, mul and mul2; +, -, unary -, * Plaintext and minimizes keep
\* the number of their (non-empty) operand; * Ciphertext of m and n elements
\* gives m + n - 1 elements, so 3 for two ciphertexts of 2 elements, and
\* other numbers (1, 4, 5, ...) for other operands.
C8_LimbCountPerOperator ==
    last.tag = "Ok" =>
        /\ last.op = "zero" => Len(last.out.c) = 0
        /\ last.op \in {"encrypt", "mul", "mul2"} => Len(last.out.c) = 2
        /\ last.op \in AddOps \cup SubOps =>
              Len(last.out.c) = IF Len(last.lhs.c) = 0 THEN Len(last.rhs.c) ELSE Len(last.lhs.c)
        /\ last.op \in PtOps \cup {"neg", "minimizes"} => Len(last.out.c) = Len(last.lhs.c)
        /\ last.op = "mul_ct" =>
              /\ Len(last.out.c) = Len(last.lhs.c) + Len(last.rhs.c) - 1
              /\ (Len(last.lhs.c) = 2 /\ Len(last.rhs.c) = 2) => Len(last.out.c) = 3

\* the tensor product of two ciphertexts of three elements
C8_Witness ==
    /\ last.op = "mul_ct" /\ last.tag = "Ok"
    /\ Len(last.lhs.c) = 3 /\ Len(last.rhs.c) = 3 /\ Len(last.out.c) = 5

ProductPlaintext(rec) ==
    Plaintext(rec.lhs.par, (rec.lw.w * rec.rw.w) % rec.lhs.par.plaintext_modulus)

RECURSIVE SumRows(_)
SumRows(ms) == IF Len(ms) = 0 THEN 0 ELSE (ms[1] - 1) + SumRows(Tail(ms))

\* a bound on the error of the relinearized product of two fresh
\* encryptions: the cross terms of the two errors, the rounding of the three
\* scaled elements against a key of coefficients at most 2 * variance, and
\* the error of the key switch
MulNoiseBound(par) ==
    LET t == par.plaintext_modulus
        E == ErrorBound(par)
        U == t * E + t - 1
        K == (1 + E) \div 2 + 1
    IN  2 * U * (K + 1) + 1 + (1 + E + E * E) + SumRows(par.ciphertext_moduli) * E

\* the ciphertext modulus leaves room for the error of a product
MulBudget(par) ==
    /\ 2 * (par.plaintext_modulus * MulNoiseBound(par) + par.plaintext_modulus - 1)
           < BigQ(par)
    /\ 3 * par.plaintext_modulus + 1 < 2 * par.ciphertext_moduli[1]

C12_WipedOnEveryExit ==
    (call # None /\ call.ret \in {"Ok", "Err"})
        => \A x \in TmpNames : call.tmp[x] # "live"

\* C13: no arithmetic operation on the secret polynomial or on a temporary
\* that is not wiped runs in variable time, and the variable-time flag of a
\* result is enabled only when every temporary is wiped.
C13_NoVariableTimeOnSecrets ==
    call # None => (~call.bad_vt /\ ~call.early_allow)

\* decrypt has returned Ok for a ciphertext whose two elements had the
\* variable-time flag set, after it multiplied c1 by the secret polynomial
C13_Witness ==
    /\ call # None
    /\ call.fn = "decrypt" /\ call.ret = "Ok" /\ call.given = {"c0", "c1"}
    /\ call.tmp["c1_s"] = "wiped"

\* C14: BfvParametersBuilder::build never aborts: whatever the state of the
\* builder, a plaintext modulus that is not below a ciphertext modulus
\* included, build returns Ok or Err.
C14_BuildNeverAborts ==
    last.op = "build" => last.tag \in {"Ok", "Err"}

\* a build that returned a parameter set whose plaintext modulus is below
\* every ciphertext modulus
BuiltValid ==
    /\ last.op = "build" /\ last.tag = "Ok"
    /\ \A i \in 1..Len(last.out.par.ciphertext_moduli) :
           last.out.par.plaintext_modulus < last.out.par.ciphertext_moduli[i]

\* C15: the delta stored in a parameter set is the constant whose value is
\* round(Q / t) mod Q, Q the product of the ciphertext moduli and t the
\* plaintext modulus, for every valid parameter set.
C15_DeltaIsRoundedQuotient ==
    BuiltValid =>
        last.out.delta =
            RoundDiv(BigQ(last.out.par), 1, last.out.par.plaintext_modulus) % BigQ(last.out.par)

\* C15 (as the code has it): the delta stored in a parameter set is the
\* constant whose value is -1/t mod Q: the value in [0, Q) whose product with
\* t is -1 modulo every ciphertext modulus.  It is the delta of the
\* parameter set that encryption uses.
C15_DeltaIsMinusInverse ==
    BuiltValid =>
        LET par == last.out.par
        IN  /\ last.out.delta \in 0..(BigQ(par) - 1)
            /\ \A i \in 1..Len(par.ciphertext_moduli) :
                   LET q == par.ciphertext_moduli[i]
                   IN  ((last.out.delta % q) * (par.plaintext_modulus % q) + 1) % q = 0
            /\ PolyFromInt(ParCtx(par), last.out.delta) = Delta(par)

\* a parameter set of two moduli and t = 17 whose delta is not round(Q / t)
C15_Witness ==
    /\ BuiltValid
    /\ Len(last.out.par.ciphertext_moduli) = 2
    /\ last.out.par.plaintext_modulus = 17
    /\ last.out.delta # RoundDiv(BigQ(last.out.par), 1, 17) % BigQ(last.out.par)

\* the parts of C16 on the setters: at most one of the two lists is
\* non-empty; each setter of a list returns Err when the other list is
\* non-empty; a setter that fails leaves the builder as it was
SettersExclusive ==
    /\ builder.ciphertext_moduli = <<>> \/ builder.ciphertext_moduli_sizes = <<>>
    /\ (last.op = "set_ciphertext_moduli_sizes" /\ last.lhs.ciphertext_moduli # <<>>)
           => (last.tag = "Err" /\ last.msg = "The set of ciphertext moduli is already specified")
    /\ (last.op = "set_ciphertext_moduli" /\ last.lhs.ciphertext_moduli_sizes # <<>>)
           => (last.tag = "Err" /\ last.msg = "The set of ciphertext moduli sizes is already specified")
    /\ (last.op \notin {"new", "build"} /\ last.tag = "Err") => builder = last.lhs

\* C16: exactly one source of the ciphertext moduli is accepted: after any
\* sequence of setter calls at most one of the two lists is non-empty, a
\* setter of one list returns Err when the other is non-empty and leaves the
\* builder unchanged, and build returns Err("Unspecified ciphertext moduli")
\* when both lists are empty.
C16_OneSourceOfModuli ==
    /\ SettersExclusive
    /\ (last.op = "build" /\ last.lhs.ciphertext_moduli = <<>>
            /\ last.lhs.ciphertext_moduli_sizes = <<>>)
           => (last.tag = "Err" /\ last.msg = "Unspecified ciphertext moduli")

\* C16 (as the code has it): the same, build returning
\* Err("Unspecified ciphertext moduli") when both lists are empty and the
\* degree and the plaintext modulus have been set; without them build
\* returns the error of the first field that is missing.
C16_OneSourceOfModuliOnceSet ==
    /\ SettersExclusive
    /\ (last.op = "build" /\ last.lhs.ciphertext_moduli = <<>>
            /\ last.lhs.ciphertext_moduli_sizes = <<>>)
           => /\ last.tag = "Err"
              /\ last.msg = IF last.lhs.degree = 0 THEN "Unspecified degree"
                            ELSE IF last.lhs.plaintext = 0 THEN "Unspecified plaintext modulus"
                            ELSE "Unspecified ciphertext moduli"

\* a setter of the sizes refused on a builder that holds explicit moduli
C16_Witness ==
    /\ last.op = "set_ciphertext_moduli_sizes"
    /\ last.rhs # <<>>
    /\ last.lhs.ciphertext_moduli # <<>>
    /\ last.tag = "Err"
    /\ builder = last.lhs

\* the primes of a given bit length that are 1 modulo twice the degree
NttPrimes(bits, degree) ==
    {p \in (2 ^ (bits - 1))..(2 ^ bits - 1) : p % (2 * degree) = 1 /\ IsPrime(p)}

\* every requested size has as many such primes as the list asks of it
EnoughPrimes(sizes, degree) ==
    \A i \in 1..Len(sizes) :
        Cardinality({j \in 1..Len(sizes) : sizes[j] = sizes[i]})
            <= Cardinality(NttPrimes(sizes[i], degree))

\* a build from a list of sizes, the degree and the plaintext modulus set
BuildFromSizes ==
    /\ last.op = "build"
    /\ last.lhs.degree # 0 /\ last.lhs.plaintext # 0
    /\ last.lhs.ciphertext_moduli_sizes # <<>>

\* C17: for a list S of requested sizes and a degree n, build fails with an
\* error if a size is outside [10, 62] or the primes of some size run out;
\* otherwise the moduli it generates are pairwise distinct, in the order of
\* S, the i-th of bit length S[i] (a parameter set that build returns has
\* these moduli and moduli sizes S), and a size that repeats yields the
\* largest prime below those already chosen for it.
C17_ModuliFromSizes ==
    BuildFromSizes =>
        LET S == last.lhs.ciphertext_moduli_sizes
            n == last.lhs.degree
            g == generate_moduli(S, n, <<>>, 0)
        IN  IF (\E i \in 1..Len(S) : S[i] \notin MinModulusBits..MaxModulusBits)
                   \/ ~EnoughPrimes(S, n)
            THEN last.tag = "Err" /\ g.tag = "Err" /\ last.msg = g.msg
            ELSE /\ g.tag = "Ok" /\ Len(g.val) = Len(S)
                 /\ \A i, j \in 1..Len(S) : i # j => g.val[i] # g.val[j]
                 /\ \A i \in 1..Len(S) :
                        LET below == {p \in NttPrimes(S[i], n) :
                                         \A j \in 1..(i - 1) : S[j] = S[i] => p < g.val[j]}
                        IN  /\ BitLen(g.val[i]) = S[i]
                            /\ g.val[i] \in below
                            /\ \A p \in below : p <= g.val[i]
                 /\ last.tag # "Err"
                 /\ last.tag = "Ok" =>
                        /\ last.out.par.ciphertext_moduli = g.val
                        /\ last.out.ciphertext_moduli_sizes = S

\* a parameter set built from a size asked twice
C17_Witness ==
    /\ BuildFromSizes
    /\ last.tag = "Ok"
    /\ last.lhs.ciphertext_moduli_sizes = <<10, 10>>
    /\ last.out.par.ciphertext_moduli[2] < last.out.par.ciphertext_moduli[1]

\* C18: a missing NTT operator is unavailable, not an error, for the
\* plaintext modulus only.  NttOperator::new(p, m) is None whenever the
\* reference operator cannot be built, whether or not the accelerated plan
\* exists; a build whose ciphertext moduli are accepted and above the
\* plaintext modulus succeeds, with op = None exactly when the plaintext
\* modulus admits no NTT of size n; a build from explicit moduli one of which
\* admits no NTT returns Err.
C18_MissingOperator ==
    (last.op = "build" /\ last.lhs.degree # 0 /\ last.lhs.plaintext # 0) =>
        LET t == last.lhs.plaintext
            n == last.lhs.degree
            m == last.lhs.ciphertext_moduli
        IN  /\ \A plan \in BOOLEAN :
                   ~supports_ntt(t, n) => NttOperator_new(t, n, plan) = None
            /\ \A i \in 1..Len(m) :
                   \A plan \in BOOLEAN :
                       ~supports_ntt(m[i], n) => NttOperator_new(m[i], n, plan) = None
            /\ last.tag = "Ok" => (last.out.op = None <=> ~supports_ntt(t, n))
            /\ (m # <<>> /\ Context_new(m, n).tag = "Ok" /\ \A i \in 1..Len(m) : t < m[i])
                   => last.tag = "Ok"
            /\ (m # <<>> /\ \E i \in 1..Len(m) : ~supports_ntt(m[i], n))
                   => last.tag = "Err"
            /\ last.msg = "Impossible to construct a Ntt operator"
                   => \E i \in 1..Len(m) : ~supports_ntt(m[i], n)

\* the build of test_builder: t = 2 admits no NTT of size 8, the accelerated
\* plan taken to exist, and the parameter set has no operator
C18_Witness ==
    /\ last.op = "build" /\ last.tag = "Ok"
    /\ last.lhs.plaintext = 2 /\ last.lhs.degree = 8
    /\ last.lhs.ciphertext_moduli = <<1153>>
    /\ last.rhs.plan
    /\ last.out.op = None

\* C19: for every modulus p and all a, b < p, add, sub, neg and mul return
\* under the constant-time entry point what their variable-time siblings
\* return, and that value is (a + b) mod p, (a - b) mod p, (-a) mod p,
\* (a * b) mod p; no intermediate overflows the word (a debug build, which
\* aborts on overflow and on a failed assertion, returns the value too).
C19_KernelAgrees ==
    (zq # None /\ zq.a < zq.p /\ zq.b < zq.p) =>
        LET p == zq.p
            a == zq.a
            b == zq.b
            d == zq.debug
        IN  /\ last.op = "add" =>
                   /\ last.tag = "Ok" /\ last.out = (a + b) % p
                   /\ zq_add(p, a, b, FALSE, d) = zq_add(p, a, b, TRUE, d)
            /\ last.op = "sub" =>
                   /\ last.tag = "Ok" /\ last.out = (a - b) % p
                   /\ zq_sub(p, a, b, FALSE, d) = zq_sub(p, a, b, TRUE, d)
            /\ last.op = "neg" =>
                   /\ last.tag = "Ok" /\ last.out = (0 - a) % p
                   /\ zq_neg(p, a, FALSE, d) = zq_neg(p, a, TRUE, d)
            /\ last.op = "mul" =>
                   /\ last.tag = "Ok" /\ last.out = (a * b) % p
                   /\ zq_mul(p, a, b, FALSE, d) = zq_mul(p, a, b, TRUE, d)

\* the constant-time product of the two largest residues of the largest
\* modulus, in a debug build
C19_Witness ==
    /\ zq # None
    /\ last.op = "mul" /\ ~last.pt /\ zq.debug
    /\ zq.p = 2 ^ MaxModulusBits - 1
    /\ zq.a = zq.p - 1 /\ zq.b = zq.p - 1
    /\ last.tag = "Ok" /\ last.out = 1

\* C20: in a debug build every constant-time operation of the kernel aborts
\* when a scalar input is not below p: add, sub, mul, neg, shoup and pow,
\* and mul_shoup and scalar_mul_vec for every element of their left operand
\* a, for the fixed operand b and for a b_shoup that is not shoup(b).
C20_DebugChecksInputs ==
    (zq # None /\ zq.debug /\ last.op # "new" /\ ~last.pt) =>
        /\ (last.op \in {"add", "sub", "mul", "pow"} /\ (zq.a >= zq.p \/ zq.b >= zq.p))
               => last.tag = "Panic"
        /\ (last.op \in {"neg", "shoup"} /\ zq.a >= zq.p) => last.tag = "Panic"
        /\ (last.op = "mul_shoup"
                /\ (zq.a >= zq.p \/ zq.b >= zq.p
                        \/ zq.b_shoup # ((zq.b * Word) \div zq.p) % Word))
               => last.tag = "Panic"
        /\ (last.op = "scalar_mul_vec" /\ (zq.a >= zq.p \/ zq.b >= zq.p))
               => last.tag = "Panic"

\* C25: reduce1 and reduce1_vt agree and reduce: for every p below half the
\* word and every x in [0, 2p), in either build, both return x if x < p and
\* x - p otherwise
C25_Reduce1 ==
    (last.op = "reduce1" /\ last.rhs < Word \div 2 /\ last.lhs < 2 * last.rhs)
        => /\ last.tag = "Ok"
           /\ last.out = (IF last.lhs < last.rhs THEN last.lhs ELSE last.lhs - last.rhs)
           /\ last.out = last.lhs % last.rhs
           /\ reduce1(last.lhs, last.rhs, zq.debug) = reduce1_vt(last.lhs, last.rhs, zq.debug)

\* the constant-time reduction has subtracted a modulus of the top of the
\* range from x = 2p - 1
C25_Witness ==
    /\ last.op = "reduce1" /\ ~last.pt
    /\ last.rhs = (Word \div 2) - 1
    /\ last.lhs = 2 * last.rhs - 1
    /\ last.tag = "Ok" /\ last.out = last.rhs - 1

\* C24: center_vt returns the representative of least absolute value: for
\* every modulus p and every a < p the value v it returns is congruent to a
\* modulo p and 2 * |v| <= p
C24_CenteredLeastAbsolute ==
    (last.op = "center_vt" /\ zq.a < zq.p)
        => /\ last.tag = "Ok"
           /\ (last.out - zq.a) % zq.p = 0
           /\ 2 * (IF last.out < 0 THEN 0 - last.out ELSE last.out) <= zq.p

\* C26: Shoup multiplication: for every modulus p, every b < p with
\* b_shoup = shoup(b) = floor(b * 2^64 / p) and every word a, in either
\* build, lazy_mul_shoup returns a value of [0, 2p) congruent to a * b, and
\* mul_shoup and mul_shoup_vt both return (a * b) mod p
C26_ShoupMultiplication ==
    (last.op \in {"lazy_mul_shoup", "mul_shoup_vt"} /\ zq.b < zq.p
         /\ zq.b_shoup = (zq.b * Word) \div zq.p)
        => /\ zq.b_shoup = shoup(zq.p, zq.b, zq.debug)
           /\ last.tag = "Ok"
           /\ last.op = "lazy_mul_shoup" =>
                  /\ 0 <= last.out /\ last.out < 2 * zq.p
                  /\ last.out % zq.p = (last.lhs * zq.b) % zq.p
           /\ last.op = "mul_shoup_vt" =>
                  /\ last.out = (last.lhs * zq.b) % zq.p
                  /\ last.out = mul_shoup(zq.p, last.lhs, zq.b, zq.b_shoup, zq.debug)

\* the largest word times the largest residue of the largest modulus, in a
\* debug build
C26_Witness ==
    /\ last.op = "mul_shoup_vt" /\ zq.debug
    /\ zq.p = 2 ^ MaxModulusBits - 1 /\ zq.b = zq.p - 1
    /\ last.lhs = Word - 1
    /\ last.tag = "Ok" /\ last.out = (last.lhs * zq.b) % zq.p

\* C27: Barrett reduction is exact on the whole input range: for every
\* modulus p, in either build, reduce returns a mod p for every word a,
\* reduce_u128 for every double word a, and reduce_i64 the non-negative
\* residue for every signed word a; the lazy intermediate lies in [0, 2p),
\* no sum of double words overflows (a debug build, which aborts when one
\* does, returns the value too), and the _vt sibling returns the same
C27_BarrettExact ==
    LET p == zq.p
        a == last.lhs
        d == zq.debug
    IN  /\ last.op = "reduce" =>
               /\ last.tag = "Ok" /\ last.out = a % p
               /\ 0 <= lazy_reduce(p, a, d) /\ lazy_reduce(p, a, d) < 2 * p
               /\ reduce(p, a, FALSE, d) = reduce(p, a, TRUE, d)
        /\ last.op = "reduce_u128" =>
               /\ last.tag = "Ok" /\ last.out = a % p
               /\ 0 <= lazy_reduce_u128(p, a, d) /\ lazy_reduce_u128(p, a, d) < 2 * p
               /\ reduce_u128(p, a, FALSE, d) = reduce_u128(p, a, TRUE, d)
        /\ last.op = "reduce_i64" =>
               /\ last.tag = "Ok" /\ last.out = a % p
               /\ 0 <= last.out /\ last.out < p
               /\ reduce_i64(p, a, FALSE, d) = reduce_i64(p, a, TRUE, d)

\* the constant-time reduction of the least signed word, in a debug build,
\* modulo the largest modulus
C27_Witness ==
    /\ last.op = "reduce_i64" /\ ~last.pt /\ zq.debug
    /\ zq.p = 2 ^ MaxModulusBits - 1
    /\ last.lhs = 0 - (Word \div 2)
    /\ last.tag = "Ok" /\ last.out = zq.p - ((Word \div 2) % zq.p)

\* a^n mod p by the exponent's bits from the least significant one
RECURSIVE PowMod(_, _, _)
PowMod(a, n, p) ==
    IF n = 0 THEN 1 % p
    ELSE IF n % 2 = 0 THEN PowMod((a * a) % p, n \div 2, p)
    ELSE (a * PowMod((a * a) % p, n \div 2, p)) % p

\* a^n mod p by n multiplications, for the exponents below 10
RECURSIVE PowNaive(_, _, _)
PowNaive(a, n, p) == IF n = 0 THEN 1 % p ELSE (a * PowNaive(a, n - 1, p)) % p

\* C28: pow is modular exponentiation: for every modulus p and all a, n < p,
\* in either build, pow(a, n) returns a^n mod p, with pow(a, 0) = 1 (also for
\* a = 0) and pow(a, 1) = a; the scan from the bit below the most
\* significant set bit of n down to bit 0 terminates with that value
C28_PowIsExponentiation ==
    (last.op = "pow" /\ zq.a < zq.p /\ zq.b < zq.p)
        => /\ last.tag = "Ok"
           /\ last.out = PowMod(zq.a, zq.b, zq.p)
           /\ zq.b < 10 => last.out = PowNaive(zq.a, zq.b, zq.p)
           /\ zq.b = 0 => last.out = 1
           /\ zq.b = 1 => last.out = zq.a

\* a debug build has raised the residue p - 2 of the prime 2^12 - 3 to the
\* power p - 1, over all the bits of the exponent
C28_Witness ==
    /\ last.op = "pow" /\ zq.debug
    /\ zq.p = 2 ^ MaxModulusBits - 3
    /\ zq.a = zq.p - 2 /\ zq.b = zq.p - 1
    /\ last.tag = "Ok" /\ last.out = 1

\* C21: serialize_vec then deserialize_vec is the identity: for every modulus
\* p and every vector a of a multiple of 8 entries, all below p,
\* deserialize_vec(serialize_vec(a)) = a; every entry takes bitlen(p - 1)
\* bits, and the bytes number serialization_length(len) = bitlen(p - 1) * len / 8
C21_SerializeRoundTrip ==
    /\ (last.op = "serialize_vec" /\ Len(last.lhs) % 8 = 0
            /\ \A i \in 1..Len(last.lhs) : last.lhs[i] < zq.p)
           => /\ last.tag = "Ok"
              /\ deserialize_vec(zq.p, last.out) = last.lhs
              /\ Len(last.out) = serialization_length(zq.p, Len(last.lhs))
              /\ 8 * Len(last.out) = BitLen(zq.p - 1) * Len(last.lhs)
              /\ \A i \in 1..Len(last.lhs) :
                     BitsValue(last.out, 8, BitLen(zq.p - 1) * (i - 1), BitLen(zq.p - 1))
                         = last.lhs[i]
    /\ (last.op = "deserialize_vec" /\ \A i \in 1..Len(last.rhs) : last.rhs[i] < zq.p)
           => /\ last.tag = "Ok"
              /\ last.out = last.rhs
              /\ Len(last.lhs) = serialization_length(zq.p, Len(last.out))
    /\ (last.op = "serialization_length" /\ last.lhs % 8 = 0)
           => last.tag = "Ok" /\ 8 * last.out = BitLen(zq.p - 1) * last.lhs

\* sixteen entries, all p - 1, of the largest modulus have come back from
\* their 24 bytes
C21_Witness ==
    /\ last.op = "deserialize_vec"
    /\ zq.p = 2 ^ MaxModulusBits - 1
    /\ Len(last.lhs) = 24
    /\ last.rhs = [i \in 1..16 |-> zq.p - 1]
    /\ last.tag = "Ok" /\ last.out = last.rhs

\* the sum over the moduli of the i-th residue of p times the i-th error
RECURSIVE RowErrors(_, _, _)
RowErrors(p, errs, n) ==
    IF n = 0 THEN 0 ELSE RowErrors(p, errs, n - 1) + p.coeffs[n] * errs[n]

\* C22: key switching re-encrypts p * from.  KeySwitchingKey::new(sk, from)
\* builds one pair (b_i, a_i) per ciphertext modulus with
\* b_i = e_i - a_i * s + g_i * from, g_i being 1 modulo q_i and 0 modulo the
\* other moduli; for every p, key_switch(p) returns (c0, c1) with
\* c0 + c1 * s = p * from + sum_i p_i * e_i modulo Q, p_i the i-th residue of
\* p: exactly p * from when all errors are 0
C22_KeySwitchReencrypts ==
    LET ms == sk.par.ciphertext_moduli
        ctx == ParCtx(sk.par)
    IN  /\ last.op = "ksk_new" =>
               /\ last.tag = "Ok"
               /\ Len(last.out.c0) = Len(ms) /\ Len(last.out.c1) = Len(ms)
               /\ \A i \in 1..Len(ms) :
                      /\ \A j \in 1..Len(ms) :
                             Garner(ms, i) % ms[j] = (IF i = j THEN 1 ELSE 0)
                      /\ PolyAdd(last.out.c0[i], PolyMul(last.out.c1[i], sk.s))
                             = PolyFromInt(ctx, last.rhs[i]
                                                    + Garner(ms, i) * PolyValue(last.lhs))
        /\ last.op = "key_switch" =>
               /\ last.tag = "Ok"
               /\ PolyAdd(last.out[1], PolyMul(last.out[2], sk.s))
                      = PolyFromInt(ctx, PolyValue(last.lhs) * PolyValue(gh.from)
                                             + RowErrors(last.lhs, gh.errs, Len(ms)))
               /\ (\A i \in 1..Len(ms) : gh.errs[i] = 0)
                      => PolyAdd(last.out[1], PolyMul(last.out[2], sk.s))
                             = PolyMul(last.lhs, gh.from)

\* an element has been switched under a key of two moduli made from an
\* element other than 0 and 1 with two different errors, neither of them 0
C22_Witness ==
    /\ last.op = "key_switch" /\ last.tag = "Ok"
    /\ Len(sk.par.ciphertext_moduli) = 2
    /\ gh.errs[1] # gh.errs[2] /\ gh.errs[1] # 0 /\ gh.errs[2] # 0
    /\ PolyValue(gh.from) \notin {0, 1}
    /\ gh.from # PolyMul(sk.s, sk.s)
    /\ PolyValue(last.lhs) \notin {0, 1}
    /\ PolyAdd(last.out[1], PolyMul(last.out[2], sk.s)) # PolyMul(last.lhs, gh.from)

\* the target context of a message, and what makes a message invalid
WireCtx(value, par) == IF value.minimized THEN PlaintextCtx(par) ELSE ParCtx(par)

WireTooShort(value) == Len(value.c) = 0 \/ (Len(value.c) = 1 /\ value.seed.len = 0)

WireBadSeed(value) == value.seed.len # 0 /\ value.seed.len # SeedLen

WireBadLimb(value, par) ==
    \E i \in 1..Len(value.c) : ~RqFits(value.c[i], WireCtx(value, par))

\* what a deserialization that returns a ciphertext returns: one element per
\* transmitted element plus one for a seed, the last one regenerated from
\* the seed, the flag of the message, every element over the target context
WireResult(rec) ==
    LET value == rec.lhs
        par == rec.rhs
        ctx == WireCtx(value, par)
        n == Len(value.c)
    IN  /\ rec.tag = "Ok"
        /\ rec.out.par = par
        /\ rec.out.minimized = value.minimized
        /\ Len(rec.out.c) = (IF value.seed.len # 0 THEN n + 1 ELSE n)
        /\ \A i \in 1..Len(rec.out.c) : rec.out.c[i].ctx = ctx
        /\ \A i \in 1..n : rec.out.c[i].coeffs = value.c[i].coefficients
        /\ value.seed.len # 0 =>
               /\ rec.out.seed = value.seed
               /\ rec.out.c[n + 1] = RandomFromSeed(ctx, value.seed)
        /\ value.seed.len = 0 => rec.out.seed = NoSeed

\* C23 as stated: deserialization never aborts; it returns an error for a
\* message with no element, with one element and no seed, or with a seed
\* of another length than the seed length, and otherwise a ciphertext
C23_ValidatesInput ==
    (last.op = "try_deserialize" /\ last.lhs # Unparsable)
        => /\ last.tag # "Panic"
           /\ (WireTooShort(last.lhs) \/ WireBadSeed(last.lhs)) => last.tag = "Err"
           /\ ~(WireTooShort(last.lhs) \/ WireBadSeed(last.lhs)) => WireResult(last)

\* C23 amended: deserialization never aborts; it returns an error for a
\* message with no element, with one element and no seed, with a seed of
\* another length than the seed length, or with an element that does not
\* convert into the target context, and otherwise a ciphertext with one
\* element per transmitted element plus one regenerated from the seed if
\* there is one, the flag of the message, and every element over the
\* plaintext-only context if the flag is set and the full one otherwise
C23_ValidatesInputAndElements ==
    (last.op = "try_deserialize" /\ last.lhs # Unparsable)
        => /\ last.tag # "Panic"
           /\ (WireTooShort(last.lhs) \/ WireBadSeed(last.lhs)
                   \/ WireBadLimb(last.lhs, last.rhs)) => last.tag = "Err"
           /\ ~(WireTooShort(last.lhs) \/ WireBadSeed(last.lhs)
                    \/ WireBadLimb(last.lhs, last.rhs)) => WireResult(last)

\* a minimized message of one element and a seed has become a minimized
\* ciphertext of two elements over the plaintext-only context of a
\* parameter set of two moduli
C23_Witness ==
    /\ last.op = "try_deserialize" /\ last.tag = "Ok"
    /\ last.lhs.minimized /\ Len(last.lhs.c) = 1 /\ last.lhs.seed.len = SeedLen
    /\ Len(last.rhs.ciphertext_moduli) = 2
    /\ Len(last.out.c) = 2 /\ last.out.minimized
    /\ last.out.c[2] = RandomFromSeed(PlaintextCtx(last.rhs), last.lhs.seed)

\* the last element of a ciphertext with a seed is the element regenerated
\* from the seed over the context the ciphertext lives in
SeedConsistent(ct) ==
    ct.seed # NoSeed =>
        /\ Len(ct.c) >= 1
        /\ ct.c[Len(ct.c)]
               = RandomFromSeed(IF ct.minimized THEN PlaintextCtx(ct.par) ELSE ParCtx(ct.par),
                                ct.seed)

\* C29: every ciphertext made by encrypt, deserialization, the homomorphic
\* operators and minimizes that has a seed has, as its last element, the
\* element regenerated from that seed over its current context: the full
\* context when it is not minimized, the plaintext-only context when it is
C29_SeedConsistency == \A r \in Regs : SeedConsistent(reg[r])

\* the parts of the identity law: the zero ciphertext on the right of += and
\* -=, on the left of +=, and operators whose operands are all zero
ZeroOnRight(r) ==
    /\ r.op \in {"add_assign", "sub_assign"}
    /\ ~r.lhs.minimized
    /\ r.rhs = zero(r.lhs.par)

ZeroOnLeft(r) ==
    /\ r.op = "add_assign"
    /\ ~r.rhs.minimized
    /\ r.lhs = zero(r.rhs.par)

ZeroOnly(r) ==
    \/ r.op \in {"add", "mul_ct"} /\ r.lhs = zero(r.lhs.par) /\ r.rhs = r.lhs
    \/ r.op = "neg" /\ r.lhs = zero(r.lhs.par)
    \/ r.op = "mul_pt" /\ r.lhs = zero(r.pt.par)

\* C30: with z = Ciphertext::zero(par) and ct any non-minimized ciphertext
\* of the same parameters, ct += &z and ct -= &z complete and leave the
\* elements of ct as they were, z += &ct yields ct, and &z + &z, -&z,
\* &z * &pt and &z * &z complete and yield a ciphertext with no elements
C30_ZeroIsIdentity ==
    /\ ZeroOnRight(last) => last.tag = "Ok" /\ last.out.c = last.lhs.c
    /\ ZeroOnLeft(last) => last.tag = "Ok" /\ last.out = last.rhs
    /\ ZeroOnly(last) => last.tag = "Ok" /\ last.out.c = << >>

====
